---- MODULE Spec2Model ----
(***************************************************************************)
(* Chain storage accessor layer (core/rawdb/accessors_chain.go): a live    *)
(* key/value store and an append-only ancient store, the accessors that    *)
(* read and write headers, bodies, receipts, total difficulty and the      *)
(* canonical index over both, the background migrator that moves blocks    *)
(* from the live to the ancient store, and the bad-block list.             *)
(*                                                                         *)
(* Byte strings are sequences; the empty sequence is Go's nil / empty      *)
(* slice (len(data) == 0).  A hash is a positive integer, the zero hash 0. *)
(***************************************************************************)
EXTENDS Integers, Sequences, FiniteSets, TLC

VARIABLES
    live,     \* the key/value store: a map from the keys present to their bytes
    ancient,  \* the ancient store: one sequence per table, entry n+1 is number n
    mig,      \* the migrator's position: [pc, num, hash]
    rd,       \* the reading call in flight: [op, hash, num, pc, data, ret, src, inLive, canon]
    wr,       \* the writing call in flight (stepwise runs): the store operations left
    reported, \* the headers of the blocks WriteBadBlock was called with (retention runs)
    call,     \* the last call that returned, with its arguments and results (batch and scalar runs)
    bad       \* the WriteBadBlock calls in flight, one per caller: [pc, header, blob]

vars == <<live, ancient, mig, rd, wr, reported, call, bad>>

----------------------------------------------------------------------------
(* Bounds of the model *)

\* blocks of the chain store: block i has number (i-1) \div 2, so two
\* competing blocks per height
NumBlocks == 2

\* blocks that may be reported as bad
NumBadBlocks == 11

----------------------------------------------------------------------------
(* Headers, blocks and their hashes *)

ZeroHash == 0

\* the i-th header: two competing headers per height, both children of the
\* first header of the height below
HeaderOf(i) ==
    [Number     |-> (i - 1) \div 2,
     ParentHash |-> IF i <= 2 THEN ZeroHash ELSE 2 * ((i - 1) \div 2) - 1,
     Extra      |-> (i - 1) % 2]

\* header.Hash(): a function of the header's content, injective and never zero
Hash(header) == 2 * header.Number + header.Extra + 1

\* block.Body(): the body is fixed by the block (the header commits to it)
BodyOf(header) ==
    [Transactions   |-> << Hash(header) + 100 >>,
     Randomness     |-> Hash(header) + 300,
     EpochSnarkData |-> Hash(header) + 400]

\* the receipts of a block, in the fields their storage form keeps
ReceiptsOf(header) ==
    << [PostStateOrStatus |-> 1, CumulativeGasUsed |-> Hash(header) + 200, Logs |-> <<>>] >>

\* the total difficulty of a block
TdOf(header) == 10 * (header.Number + 1) + header.Extra

Headers == {HeaderOf(i) : i \in 1..NumBlocks}

BadHeaders == {HeaderOf(i) : i \in 1..NumBadBlocks}

\* types.NewBlockWithHeader(header).WithBody(...)
BlockOf(header) ==
    [Header |-> header, Body |-> BodyOf(header), Difficulty |-> header.Extra + 1]

----------------------------------------------------------------------------
(* Encodings *)

\* rlp.EncodeToBytes: the value tagged with its type; never empty
EncodeToBytes(type, val) == <<type, val>>

\* rlp.DecodeBytes into a value of `type`: fails on bytes of another shape
DecodeOk(type, data) == Len(data) = 2 /\ data[1] = type

DecodeBytes(type, data) == data[2]

\* number >> (8 * k)
RECURSIVE ShiftBytes(_, _)
ShiftBytes(number, k) == IF k = 0 THEN number ELSE ShiftBytes(number \div 256, k - 1)

\* encodeBlockNumber with binary.LittleEndian
encodeBlockNumberLittleEndian(number) == [i \in 1..8 |-> ShiftBytes(number, i - 1) % 256]

\* encodeBlockNumber: 8 bytes, big endian
encodeBlockNumber(number) == [i \in 1..8 |-> ShiftBytes(number, 8 - i) % 256]

\* binary.BigEndian.Uint64 of the first i bytes
RECURSIVE BigEndian(_, _)
BigEndian(data, i) == IF i = 0 THEN 0 ELSE BigEndian(data, i - 1) * 256 + data[i]

Uint64(data) == BigEndian(data, 8)

\* hash.Bytes()
HashBytes(hash) == <<"hash", hash>>

\* common.BytesToHash: empty bytes give the zero hash
BytesToHash(data) == IF Len(data) = 0 THEN ZeroHash ELSE data[2]

----------------------------------------------------------------------------
(* Keys of the live store *)

headerKey(number, hash)        == [kind |-> "h", num |-> number, hash |-> hash, suffix |-> ""]
headerHashKey(number)          == [kind |-> "h", num |-> number, hash |-> ZeroHash, suffix |-> "n"]
headerTDKey(number, hash)      == [kind |-> "h", num |-> number, hash |-> hash, suffix |-> "t"]
headerNumberKey(hash)          == [kind |-> "H", num |-> 0, hash |-> hash, suffix |-> ""]
blockBodyKey(number, hash)     == [kind |-> "b", num |-> number, hash |-> hash, suffix |-> ""]
blockReceiptsKey(number, hash) == [kind |-> "r", num |-> number, hash |-> hash, suffix |-> ""]
badBlockKey                    == [kind |-> "InvalidBlock", num |-> 0, hash |-> ZeroHash, suffix |-> ""]

----------------------------------------------------------------------------
(* The two stores *)

\* db.Get: the bytes under the key, empty when the key is absent
GetIn(l, key) == IF key \in DOMAIN l THEN l[key] ELSE <<>>

Get(key) == GetIn(live, key)

\* db.Has
Has(key) == key \in DOMAIN live

\* db.Put and db.Delete, as the store operations a writer issues
PutOp(key, val) == [op |-> "put", key |-> key, val |-> val]

DeleteOp(key) == [op |-> "delete", key |-> key, val |-> <<>>]

\* the store after one operation
Apply(l, o) ==
    IF o.op = "put"
    THEN [k \in DOMAIN l \cup {o.key} |-> IF k = o.key THEN o.val ELSE l[k]]
    ELSE [k \in DOMAIN l \ {o.key} |-> l[k]]

\* the store after a sequence of operations, in order
RECURSIVE Run(_, _)
Run(l, ops) == IF ops = <<>> THEN l ELSE Run(Apply(l, Head(ops)), Tail(ops))

freezerHashTable       == "hashes"
freezerHeaderTable     == "headers"
freezerBodiesTable     == "bodies"
freezerReceiptTable    == "receipts"
freezerDifficultyTable == "diffs"

\* the number of frozen blocks
Frozen == Len(ancient[freezerHashTable])

\* db.Ancient's error: the table has no entry for the number
AncientErr(table, number) == number >= Len(ancient[table])

\* db.Ancient: the entry of the table at the number, empty on error
Ancient(table, number) ==
    IF AncientErr(table, number) THEN <<>> ELSE ancient[table][number + 1]

\* an optional result: nil, or a value
Nil == <<>>

Some(val) == <<val>>

----------------------------------------------------------------------------
(* Readers, as one call evaluated on one state of the two stores *)

ReadOps == {"ReadCanonicalHash", "ReadHeaderRLP", "ReadBodyRLP", "ReadTdRLP", "ReadReceiptsRLP"}

HasOps == {"HasHeader", "HasBody", "HasReceipts"}

\* the ancient table a reader probes
Table(op) ==
    CASE op = "ReadCanonicalHash" -> freezerHashTable
      [] op = "ReadHeaderRLP"     -> freezerHeaderTable
      [] op = "ReadBodyRLP"       -> freezerBodiesTable
      [] op = "ReadTdRLP"         -> freezerDifficultyTable
      [] op = "ReadReceiptsRLP"   -> freezerReceiptTable
      [] OTHER                    -> freezerHashTable

\* the live key a reader probes
LiveKey(op, hash, number) ==
    CASE op = "ReadCanonicalHash"              -> headerHashKey(number)
      [] op \in {"ReadHeaderRLP", "HasHeader"} -> headerKey(number, hash)
      [] op \in {"ReadBodyRLP", "HasBody"}     -> blockBodyKey(number, hash)
      [] op = "ReadTdRLP"                      -> headerTDKey(number, hash)
      [] OTHER                                 -> blockReceiptsKey(number, hash)

\* the readers that compare the ancient hash entry with the requested hash
\* before they return an ancient entry
VerifiesNever(op) == FALSE

Verifies(op) == op \in {"ReadBodyRLP", "ReadTdRLP", "ReadReceiptsRLP"}

\* the readers that probe the ancient store again after a miss in the live store
RechecksNever(op) == FALSE

Rechecks(op) == op \in ReadOps

\* the extra hash comparison of an ancient entry
HashMatches(op, hash, number) ==
    Verifies(op) => BytesToHash(Ancient(freezerHashTable, number)) = hash

\* one probe of the ancient store by a Read*RLP: the entry, when it passes the
\* reader's hash comparison
AncientProbe(op, hash, number) ==
    LET data == Ancient(Table(op), number)
    IN  IF Len(data) > 0 /\ HashMatches(op, hash, number) THEN data ELSE <<>>

\* the three probes of a Read*RLP
ReadTwoTier(op, hash, number) ==
    LET first == AncientProbe(op, hash, number)
        second == Get(LiveKey(op, hash, number))
    IN  IF Len(first) > 0 THEN first
        ELSE IF Len(second) > 0 THEN second
        ELSE IF Rechecks(op) THEN AncientProbe(op, hash, number)
        ELSE <<>>

ReadCanonicalHashLiveFirst(number) ==
    LET data == Get(headerHashKey(number))
    IN  BytesToHash(IF Len(data) > 0 THEN data ELSE Ancient(freezerHashTable, number))

ReadCanonicalHash(number) ==
    BytesToHash(ReadTwoTier("ReadCanonicalHash", ZeroHash, number))

ReadHeaderRLP(hash, number) == ReadTwoTier("ReadHeaderRLP", hash, number)

ReadBodyRLP(hash, number) == ReadTwoTier("ReadBodyRLP", hash, number)

\* ReadCanonicalBodyRLP asking the live store first
ReadCanonicalBodyRLPLiveFirst(number) ==
    LET data == Get(blockBodyKey(number, BytesToHash(Get(headerHashKey(number)))))
    IN  IF Len(data) > 0 THEN data ELSE Ancient(freezerBodiesTable, number)

\* ReadCanonicalBodyRLP: the ancient body at the number, else the live body
\* under the canonical hash, else the ancient body again
ReadCanonicalBodyRLP(number) ==
    LET first == Ancient(freezerBodiesTable, number)
        second == Get(blockBodyKey(number, ReadCanonicalHash(number)))
    IN  IF Len(first) > 0 THEN first
        ELSE IF Len(second) > 0 THEN second
        ELSE Ancient(freezerBodiesTable, number)

ReadTdRLP(hash, number) == ReadTwoTier("ReadTdRLP", hash, number)

ReadReceiptsRLP(hash, number) == ReadTwoTier("ReadReceiptsRLP", hash, number)

\* the ancient probe of a Has*: the hash table holds the requested hash
HasAncient(hash, number) ==
    /\ ~AncientErr(freezerHashTable, number)
    /\ BytesToHash(Ancient(freezerHashTable, number)) = hash

HasTwoTier(op, hash, number) ==
    IF HasAncient(hash, number) THEN TRUE ELSE Has(LiveKey(op, hash, number))

HasHeader(hash, number) == HasTwoTier("HasHeader", hash, number)

HasBody(hash, number) == HasTwoTier("HasBody", hash, number)

HasReceipts(hash, number) == HasTwoTier("HasReceipts", hash, number)

\* the reader treats bytes that do not decode as bytes that decode
DecodedUnchecked(type, data) ==
    IF Len(data) = 0 THEN Nil ELSE Some(DecodeBytes(type, data))

\* a raw value decoded: nil when it is empty or does not decode
Decoded(type, data) ==
    IF Len(data) = 0 THEN Nil
    ELSE IF ~DecodeOk(type, data) THEN Nil
    ELSE Some(DecodeBytes(type, data))

ReadHeader(hash, number) == Decoded("Header", ReadHeaderRLP(hash, number))

ReadBody(hash, number) == Decoded("Body", ReadBodyRLP(hash, number))

ReadTd(hash, number) == Decoded("Td", ReadTdRLP(hash, number))

ReadRawReceipts(hash, number) == Decoded("Receipts", ReadReceiptsRLP(hash, number))

ReadHeaderNumber(hash) ==
    LET data == Get(headerNumberKey(hash))
    IN  IF Len(data) # 8 THEN Nil ELSE Some(Uint64(data))

\* types.NewBlockWithHeader(header).WithBody(transactions, randomness,
\* epochSnarkData)
WithBody(header, transactions, randomness, epochSnarkData) ==
    [Header |-> header, Transactions |-> transactions,
     Randomness |-> randomness, EpochSnarkData |-> epochSnarkData]

ReadBlock(hash, number) ==
    LET header == ReadHeader(hash, number)
        body == ReadBody(hash, number)
    IN  IF header = Nil THEN Nil
        ELSE IF body = Nil THEN Nil
        ELSE Some(WithBody(header[1], body[1].Transactions, body[1].Randomness,
                           body[1].EpochSnarkData))

----------------------------------------------------------------------------
(* Writers, as the store operations one call issues, in order *)

WriteCanonicalHash(hash, number) ==
    << PutOp(headerHashKey(number), HashBytes(hash)) >>

DeleteCanonicalHash(number) == << DeleteOp(headerHashKey(number)) >>

WriteHeaderNumber(hash, number) ==
    << PutOp(headerNumberKey(hash), encodeBlockNumber(number)) >>

DeleteHeaderNumber(hash) == << DeleteOp(headerNumberKey(hash)) >>

WriteHeaderHeaderFirst(header) ==
    << PutOp(headerKey(header.Number, Hash(header)), EncodeToBytes("Header", header)) >>
    \o WriteHeaderNumber(Hash(header), header.Number)

WriteHeader(header) ==
    WriteHeaderNumber(Hash(header), header.Number)
    \o << PutOp(headerKey(header.Number, Hash(header)), EncodeToBytes("Header", header)) >>

deleteHeaderWithoutNumber(hash, number) == << DeleteOp(headerKey(number, hash)) >>

DeleteHeader(hash, number) ==
    deleteHeaderWithoutNumber(hash, number) \o << DeleteOp(headerNumberKey(hash)) >>

WriteBodyRLP(hash, number, rlp) == << PutOp(blockBodyKey(number, hash), rlp) >>

WriteBody(hash, number, body) == WriteBodyRLP(hash, number, EncodeToBytes("Body", body))

DeleteBody(hash, number) == << DeleteOp(blockBodyKey(number, hash)) >>

WriteTd(hash, number, td) ==
    << PutOp(headerTDKey(number, hash), EncodeToBytes("Td", td)) >>

DeleteTd(hash, number) == << DeleteOp(headerTDKey(number, hash)) >>

WriteReceipts(hash, number, receipts) ==
    << PutOp(blockReceiptsKey(number, hash), EncodeToBytes("Receipts", receipts)) >>

DeleteReceipts(hash, number) == << DeleteOp(blockReceiptsKey(number, hash)) >>

\* WriteBlock with the header written before the body
WriteBlockHeaderFirst(block) ==
    WriteHeader(block.Header)
    \o WriteBody(Hash(block.Header), block.Header.Number, block.Body)

WriteBlock(block) ==
    WriteBody(Hash(block.Header), block.Header.Number, block.Body)
    \o WriteHeader(block.Header)

DeleteBlock(hash, number) ==
    DeleteReceipts(hash, number) \o DeleteHeader(hash, number)
    \o DeleteBody(hash, number) \o DeleteTd(hash, number)

\* deletes the hash-to-number entry too
DeleteBlockWithoutNumberAll(hash, number) ==
    DeleteReceipts(hash, number) \o DeleteHeader(hash, number)
        \o DeleteBody(hash, number) \o DeleteTd(hash, number)

DeleteBlockWithoutNumber(hash, number) ==
    DeleteReceipts(hash, number) \o deleteHeaderWithoutNumber(hash, number)
    \o DeleteBody(hash, number) \o DeleteTd(hash, number)

----------------------------------------------------------------------------
(* The ancient store's writer *)

\* the write operation ModifyAncients hands to its callback: the tables as
\* they grow, whether an append has failed, the appends attempted so far, and
\* the attempt the store rejects (0: none)
AncientWriteOp(failAt) ==
    [tables |-> ancient, err |-> FALSE, log |-> <<>>, failAt |-> failAt]

\* a store that takes an item of any number
AppendRawAnyNumber(w, table, num, item) ==
    IF w.err THEN w
    ELSE [w EXCEPT !.log = Append(@, [table |-> table, num |-> num, item |-> item]),
                   !.tables[table] = Append(@, item)]

\* op.AppendRaw / op.Append: the item is added when its number is the next of
\* the table and the store accepts it, and the write fails otherwise; the
\* caller makes no append after a failure
AppendRaw(w, table, num, item) ==
    IF w.err THEN w
    ELSE LET tried == [w EXCEPT !.log = Append(@, [table |-> table, num |-> num, item |-> item])]
         IN  IF num # Len(w.tables[table]) \/ Len(tried.log) = w.failAt
             THEN [tried EXCEPT !.err = TRUE]
             ELSE [tried EXCEPT !.tables[table] = Append(@, item)]

writeAncientBlockNoHash(w, block, header, receipts, td) ==
    LET num == block.Header.Number
        w1 == AppendRaw(w, freezerHashTable, num, HashBytes(block.Header.ParentHash))
        w2 == AppendRaw(w1, freezerHeaderTable, num, EncodeToBytes("Header", header))
        w3 == AppendRaw(w2, freezerBodiesTable, num, EncodeToBytes("Body", block.Body))
        w4 == AppendRaw(w3, freezerReceiptTable, num, EncodeToBytes("Receipts", receipts))
    IN  AppendRaw(w4, freezerDifficultyTable, num, EncodeToBytes("Td", td))

\* goes on to the next table after a failed append
writeAncientBlockGoesOn(w, block, header, receipts, td) ==
    LET num == block.Header.Number
        on(x) == [x EXCEPT !.err = FALSE]
        w1 == AppendRaw(w, freezerHashTable, num, HashBytes(Hash(block.Header)))
        w2 == AppendRaw(on(w1), freezerHeaderTable, num, EncodeToBytes("Header", header))
        w3 == AppendRaw(on(w2), freezerBodiesTable, num, EncodeToBytes("Body", block.Body))
        w4 == AppendRaw(on(w3), freezerReceiptTable, num, EncodeToBytes("Receipts", receipts))
        w5 == AppendRaw(on(w4), freezerDifficultyTable, num, EncodeToBytes("Td", td))
    IN  [w5 EXCEPT !.err = w1.err \/ w2.err \/ w3.err \/ w4.err \/ w5.err]

\* appends the body before the header
writeAncientBlockBodyFirst(w, block, header, receipts, td) ==
    LET num == block.Header.Number
        w1 == AppendRaw(w, freezerHashTable, num, HashBytes(Hash(block.Header)))
        w2 == AppendRaw(w1, freezerBodiesTable, num, EncodeToBytes("Body", block.Body))
        w3 == AppendRaw(w2, freezerHeaderTable, num, EncodeToBytes("Header", header))
        w4 == AppendRaw(w3, freezerReceiptTable, num, EncodeToBytes("Receipts", receipts))
    IN  AppendRaw(w4, freezerDifficultyTable, num, EncodeToBytes("Td", td))

writeAncientBlock(w, block, header, receipts, td) ==
    LET num == block.Header.Number
        w1 == AppendRaw(w, freezerHashTable, num, HashBytes(Hash(block.Header)))
        w2 == AppendRaw(w1, freezerHeaderTable, num, EncodeToBytes("Header", header))
        w3 == AppendRaw(w2, freezerBodiesTable, num, EncodeToBytes("Body", block.Body))
        w4 == AppendRaw(w3, freezerReceiptTable, num, EncodeToBytes("Receipts", receipts))
    IN  AppendRaw(w4, freezerDifficultyTable, num, EncodeToBytes("Td", td))

\* adds the difficulty of the first block of the batch too
RECURSIVE AncientLoopAddsFirst(_, _, _, _, _)
AncientLoopAddsFirst(w, blocks, receipts, tdSum, i) ==
    IF i > Len(blocks) \/ w.err THEN [tables |-> w.tables, err |-> w.err, log |-> w.log,
                                      failAt |-> w.failAt, tdSum |-> tdSum]
    ELSE LET sum == tdSum + blocks[i].Difficulty
         IN  AncientLoopAddsFirst(writeAncientBlock(w, blocks[i], blocks[i].Header, receipts[i], sum),
                                  blocks, receipts, sum, i + 1)

\* the loop of WriteAncientBlocks from block i on, with the running sum
RECURSIVE AncientLoop(_, _, _, _, _)
AncientLoop(w, blocks, receipts, tdSum, i) ==
    IF i > Len(blocks) \/ w.err THEN [tables |-> w.tables, err |-> w.err, log |-> w.log,
                                      failAt |-> w.failAt, tdSum |-> tdSum]
    ELSE LET sum == IF i > 1 THEN tdSum + blocks[i].Difficulty ELSE tdSum
         IN  AncientLoop(writeAncientBlock(w, blocks[i], blocks[i].Header, receipts[i], sum),
                         blocks, receipts, sum, i + 1)

\* tdSum = new(big.Int).Set(td): the sum runs in a copy, the caller's value
\* stays what it was
CallerTdShared(td, tdSum) == tdSum

CallerTd(td, tdSum) == td

\* db.ModifyAncients: all of the batch, or nothing of it; the store rejects
\* the append numbered failAt
ModifyAncients(blocks, receipts, td, failAt) ==
    LET w == AncientLoop(AncientWriteOp(failAt), blocks, receipts, td, 1)
    IN  [tables |-> IF w.err THEN ancient ELSE w.tables,
         err    |-> w.err,
         log    |-> w.log,
         td     |-> CallerTd(td, w.tdSum)]

WriteAncientBlocks(blocks, receipts, td) == ModifyAncients(blocks, receipts, td, 0).tables

----------------------------------------------------------------------------
(* The bad-block list *)

badBlockToKeep == 10

\* the list stored under badBlockKey, empty when the key is absent
badBlocksIn(l) ==
    IF Len(GetIn(l, badBlockKey)) > 0
    THEN DecodeBytes("BadBlocks", GetIn(l, badBlockKey))
    ELSE <<>>

\* the entries at the indices I of the list, in every order that
\* sort.Sort(sort.Reverse(list)) may leave them: by number, highest first,
\* entries of equal number in any order (the sort is not stable)
SortReverseKeepOrder(list) == {list}

RECURSIVE Arrange(_, _)
Arrange(list, I) ==
    IF I = {} THEN {<<>>}
    ELSE LET top == {i \in I : \A j \in I :
                        ~(list[i].Header.Number < list[j].Header.Number)}
         IN  UNION {{<<list[i]>> \o rest : rest \in Arrange(list, I \ {i})} : i \in top}

SortReverse(list) == Arrange(list, DOMAIN list)

\* badBlocks[:badBlockToKeep] when the list is longer
TruncateTail(list) ==
    IF Len(list) > badBlockToKeep
    THEN SubSeq(list, Len(list) - badBlockToKeep + 1, Len(list))
    ELSE list

Truncate(list) ==
    IF Len(list) > badBlockToKeep THEN SubSeq(list, 1, badBlockToKeep) ELSE list

\* the scan for an entry with the number and the hash of the block
IsDuplicateNever(badBlocks, block) == FALSE

IsDuplicate(badBlocks, block) ==
    \E i \in DOMAIN badBlocks :
        /\ badBlocks[i].Header.Number = block.Header.Number
        /\ Hash(badBlocks[i].Header) = Hash(block.Header)

\* the list WriteBadBlock sorts: the stored list and the new entry
Appended(l, block) ==
    Append(badBlocksIn(l), [Header |-> block.Header, Body |-> block.Body])

\* the store operations of WriteBadBlock on the store l, `sorted` being the
\* sorted list
WriteBadBlock(l, block, sorted) ==
    IF IsDuplicate(badBlocksIn(l), block) THEN <<>>
    ELSE << PutOp(badBlockKey, EncodeToBytes("BadBlocks", Truncate(sorted))) >>

DeleteBadBlocks == << DeleteOp(badBlockKey) >>

\* the stored blocks, in stored order
ReadAllBadBlocks ==
    [i \in DOMAIN badBlocksIn(live) |->
        [Header |-> badBlocksIn(live)[i].Header, Body |-> badBlocksIn(live)[i].Body]]

\* the first stored block with the hash, nil when none
ReadBadBlock(hash) ==
    LET found == {i \in DOMAIN badBlocksIn(live) : Hash(badBlocksIn(live)[i].Header) = hash}
    IN  IF found = {} THEN Nil
        ELSE Some(badBlocksIn(live)[CHOOSE i \in found : \A j \in found : i <= j])

----------------------------------------------------------------------------
(* Receipt logs and their derived fields *)

\* transactions per body and logs per receipt of the blocks whose logs are read
MaxTxs == 2

MaxLogs == 2

\* tx.Hash()
TxHashOf(tx) == 1000 + tx

\* a log as stored (types.LogForStorage): the consensus fields only
StoredLog(data) == [Data |-> data]

\* a stored log as a types.Log: the derived fields are zero
LogOf(stored) ==
    [Data |-> stored.Data, BlockNumber |-> 0, BlockHash |-> ZeroHash,
     TxHash |-> ZeroHash, TxIndex |-> 0, Index |-> 0]

\* receiptLogs.DecodeRLP: of a stored receipt, only the logs
receiptLogs(stored) == [Logs |-> [j \in DOMAIN stored.Logs |-> LogOf(stored.Logs[j])]]

\* the count check of deriveLogFields
CountOkEqual(nTxs, nReceipts) == nTxs = nReceipts

CountOk(nTxs, nReceipts) == nTxs = nReceipts \/ nTxs + 1 = nReceipts

\* the inner loop of deriveLogFields: the logs of one receipt get the block,
\* the transaction and the running log index
SetLogsFromZero(logs, hash, number, txHash, txIndex, logIndex) ==
    [j \in DOMAIN logs |->
        [logs[j] EXCEPT !.BlockNumber = number, !.BlockHash = hash,
                        !.TxHash = txHash, !.TxIndex = txIndex,
                        !.Index = j - 1]]

SetLogs(logs, hash, number, txHash, txIndex, logIndex) ==
    [j \in DOMAIN logs |->
        [logs[j] EXCEPT !.BlockNumber = number, !.BlockHash = hash,
                        !.TxHash = txHash, !.TxIndex = txIndex,
                        !.Index = logIndex + j - 1]]

\* the loop over the transactions, from transaction i on (i counts from 1):
\* the receipts and the log index after it
RECURSIVE deriveTxLogs(_, _, _, _, _, _)
deriveTxLogs(receipts, hash, number, txs, i, logIndex) ==
    IF i > Len(txs) THEN [receipts |-> receipts, logIndex |-> logIndex]
    ELSE deriveTxLogs(
             [receipts EXCEPT ![i].Logs =
                 SetLogs(@, hash, number, TxHashOf(txs[i]), i - 1, logIndex)],
             hash, number, txs, i + 1, logIndex + Len(receipts[i].Logs))

\* the block finalization receipt, when there is one
deriveFinalizationAsTx(receipts, hash, number, txs, logIndex) ==
    IF Len(txs) + 1 = Len(receipts)
    THEN [receipts EXCEPT ![Len(txs) + 1].Logs =
             SetLogs(@, hash, number, ZeroHash, Len(txs), logIndex)]
    ELSE receipts

deriveFinalization(receipts, hash, number, txs, logIndex) ==
    IF Len(txs) + 1 = Len(receipts)
    THEN [receipts EXCEPT ![Len(txs) + 1].Logs =
             SetLogs(@, hash, number, hash, Len(txs), logIndex)]
    ELSE receipts

\* deriveLogFields: the error, and the receipts as the call leaves them
deriveLogFields(receipts, hash, number, txs) ==
    IF ~CountOk(Len(txs), Len(receipts))
    THEN [err |-> TRUE, receipts |-> receipts]
    ELSE LET done == deriveTxLogs(receipts, hash, number, txs, 1, 0)
         IN  [err |-> FALSE,
              receipts |-> deriveFinalization(done.receipts, hash, number, txs,
                                              done.logIndex)]

\* the stored receipts of the block decoded as receiptLogs
DecodeReceiptLogs(data) ==
    [i \in DOMAIN DecodeBytes("Receipts", data) |->
        receiptLogs(DecodeBytes("Receipts", data)[i])]

\* ReadLogs: nil, or the logs of every receipt with their derived fields
ReadLogs(hash, number) ==
    LET data == ReadReceiptsRLP(hash, number)
        body == ReadBody(hash, number)
    IN  IF Len(data) = 0 THEN Nil
        ELSE IF ~DecodeOk("Receipts", data) THEN Nil
        ELSE IF body = Nil THEN Nil
        ELSE LET derived == deriveLogFields(DecodeReceiptLogs(data), hash, number,
                                            body[1].Transactions)
             IN  IF derived.err THEN Nil
                 ELSE Some([i \in DOMAIN derived.receipts |-> derived.receipts[i].Logs])

----------------------------------------------------------------------------
(* The common ancestor of two headers *)

\* stands for 2^64 - 1, the number uint64(0) - 1 wraps to: above every number
\* a store holds
MaxUint64 == 2147483647

\* number - 1 on uint64
PrevNumber(number) == IF number = 0 THEN MaxUint64 ELSE number - 1

\* the lookup of the parent of a header, and what it returns
ParentLookup(header) == [hash |-> header.ParentHash, number |-> PrevNumber(header.Number)]

ReadParent(header) == ReadHeader(header.ParentHash, PrevNumber(header.Number))

\* the third loop of FindCommonAncestor: both headers step to their parents
\* until their hashes are equal
RECURSIVE ancestorLockstep(_, _, _)
ancestorLockstep(a, b, lookups) ==
    IF Hash(a) # Hash(b)
    THEN IF ReadParent(a) = Nil
         THEN [ret |-> Nil, lookups |-> Append(lookups, ParentLookup(a))]
         ELSE IF ReadParent(b) = Nil
         THEN [ret |-> Nil,
               lookups |-> lookups \o << ParentLookup(a), ParentLookup(b) >>]
         ELSE ancestorLockstep(ReadParent(a)[1], ReadParent(b)[1],
                               lookups \o << ParentLookup(a), ParentLookup(b) >>)
    ELSE [ret |-> Some(a), lookups |-> lookups]

\* the second loop left out
ancestorLowerBSkipped(a, b, lookups) == ancestorLockstep(a, b, lookups)

\* the second loop: b steps down to the height of a
RECURSIVE ancestorLowerB(_, _, _)
ancestorLowerB(a, b, lookups) ==
    IF a.Number < b.Number
    THEN IF ReadParent(b) = Nil
         THEN [ret |-> Nil, lookups |-> Append(lookups, ParentLookup(b))]
         ELSE ancestorLowerB(a, ReadParent(b)[1], Append(lookups, ParentLookup(b)))
    ELSE ancestorLockstep(a, b, lookups)

\* the first loop: a steps down to the height of b
RECURSIVE ancestorLowerA(_, _, _)
ancestorLowerA(a, b, lookups) ==
    IF a.Number > b.Number
    THEN IF ReadParent(a) = Nil
         THEN [ret |-> Nil, lookups |-> Append(lookups, ParentLookup(a))]
         ELSE ancestorLowerA(ReadParent(a)[1], b, Append(lookups, ParentLookup(a)))
    ELSE ancestorLowerB(a, b, lookups)

\* FindCommonAncestor: the header returned (or nil), and the parent lookups
\* made, in order
FindCommonAncestor(a, b) == ancestorLowerA(a, b, <<>>)

----------------------------------------------------------------------------
(* Keys as bytes, and the iterator of the live store *)

\* common.HashLength: the bytes of a hash in a key
HashLength == 32

\* the bytes of a hash in a key: the leading byte spreads the hashes below and
\* above the canonical suffix, the last byte tells the hashes apart
hashKeyBytes(hash) ==
    [i \in 1..HashLength |->
        IF i = 1 THEN (hash * 83) % 256 ELSE IF i = HashLength THEN hash ELSE 0]

\* common.BytesToHash of the last HashLength bytes of a key
keyHash(key) == key[Len(key)]

headerPrefix == << 104 >>        \* "h"
headerTDSuffix == << 116 >>      \* "t"
headerHashSuffix == << 110 >>    \* "n"
headerNumberPrefix == << 72 >>   \* "H"
blockBodyPrefix == << 98 >>      \* "b"
blockReceiptsPrefix == << 114 >> \* "r"
badBlockKeyBytes == << 73, 110, 118, 97, 108, 105, 100, 66, 108, 111, 99, 107 >>
uptimePrefix == << 117, 112, 116, 105, 109, 101 >>   \* []byte("uptime")

\* headerKeyPrefix = headerPrefix + num (uint64 big endian)
headerKeyPrefix(number) == headerPrefix \o encodeBlockNumber(number)

\* the bytes of a key of the live store
KeyBytes(key) ==
    IF key.kind = "h"
    THEN IF key.suffix = "n"
         THEN headerKeyPrefix(key.num) \o headerHashSuffix
         ELSE headerKeyPrefix(key.num) \o hashKeyBytes(key.hash)
                  \o (IF key.suffix = "t" THEN headerTDSuffix ELSE <<>>)
    ELSE IF key.kind = "H" THEN headerNumberPrefix \o hashKeyBytes(key.hash)
    ELSE IF key.kind = "b"
    THEN blockBodyPrefix \o encodeBlockNumber(key.num) \o hashKeyBytes(key.hash)
    ELSE IF key.kind = "r"
    THEN blockReceiptsPrefix \o encodeBlockNumber(key.num) \o hashKeyBytes(key.hash)
    ELSE IF key.kind = "uptime" THEN uptimePrefix \o encodeBlockNumber(key.num)
    ELSE badBlockKeyBytes

\* bytes.Compare(x, y) < 0, comparing from byte i on
RECURSIVE BytesLessFrom(_, _, _)
BytesLessFrom(x, y, i) ==
    IF i > Len(y) THEN FALSE
    ELSE IF i > Len(x) THEN TRUE
    ELSE IF x[i] # y[i] THEN x[i] < y[i]
    ELSE BytesLessFrom(x, y, i + 1)

BytesLess(x, y) == BytesLessFrom(x, y, 1)

HasPrefix(x, prefix) ==
    Len(x) >= Len(prefix) /\ SubSeq(x, 1, Len(prefix)) = prefix

\* the items of a set, keys ascending
RECURSIVE SortItems(_)
SortItems(items) ==
    IF items = {} THEN <<>>
    ELSE LET x == CHOOSE item \in items : TRUE
             rest == SortItems(items \ {x})
             before == Cardinality({i \in DOMAIN rest : BytesLess(rest[i].key, x.key)})
         IN  SubSeq(rest, 1, before) \o << x >> \o SubSeq(rest, before + 1, Len(rest))

\* db.NewIterator(prefix, start): the items of the live store whose key has
\* the prefix and is at or after prefix + start, keys ascending
NewIterator(prefix, start) ==
    SortItems({item \in {[key |-> KeyBytes(k), value |-> live[k]] : k \in DOMAIN live} :
                  /\ HasPrefix(item.key, prefix)
                  /\ ~BytesLess(item.key, prefix \o start)})

----------------------------------------------------------------------------
(* Range reads *)

\* ReadAllHashes without the key length filter
ReadAllHashesUnfiltered(number) ==
    LET it == NewIterator(headerKeyPrefix(number), <<>>)
    IN  [i \in DOMAIN it |-> keyHash(it[i].key)]

\* ReadAllHashes: the hashes of the keys of the length of a header key
ReadAllHashes(number) ==
    LET prefix == headerKeyPrefix(number)
        Matches(item) == Len(item.key) = Len(prefix) + HashLength
        found == SelectSeq(NewIterator(prefix, <<>>), Matches)
    IN  [i \in DOMAIN found |-> keyHash(found[i].key)]

\* the loop of ReadAllHashesInRange, from item i of the iterator on
RECURSIVE hashesInRangeLoop(_, _, _, _, _)
hashesInRangeLoop(it, i, last, keyLength, hashes) ==
    IF i > Len(it) THEN hashes
    ELSE IF Len(it[i].key) # keyLength
    THEN hashesInRangeLoop(it, i + 1, last, keyLength, hashes)
    ELSE LET num == Uint64(SubSeq(it[i].key, Len(headerPrefix) + 1, Len(headerPrefix) + 8))
         IN  IF num > last THEN hashes
             ELSE hashesInRangeLoop(it, i + 1, last, keyLength,
                      Append(hashes, [Number |-> num, Hash |-> keyHash(it[i].key)]))

\* 1+last-first on uint64: the capacity ReadAllHashesInRange asks make for
hashesCapacity(first, last) ==
    IF first <= last
    THEN IF last - first = MaxUint64 THEN 0 ELSE 1 + last - first
    ELSE IF first = last + 1 THEN 0 ELSE (MaxUint64 - first) + last + 2

\* the largest capacity make gives a slice of pointers; stands for the
\* allocation limit of the runtime divided by the size of a pointer (2^45 on
\* a 64-bit build): above every span of numbers a model store holds, far
\* below MaxUint64
MaxSliceCap == 16777216

\* make panics ("makeslice: cap out of range") above that capacity
makeslicePanics(cap) == cap > MaxSliceCap

\* what a call that panicked gives its caller: no list
Panicked == << "panic: makeslice: cap out of range" >>

\* ReadAllHashesInRange with the last number left out
ReadAllHashesInRangeExclusive(first, last) ==
    hashesInRangeLoop(NewIterator(headerPrefix, encodeBlockNumber(first)), 1, last - 1,
                      Len(headerPrefix) + 8 + HashLength, <<>>)

\* ReadAllHashesInRange: the pairs of the loop, when make gave the slice
ReadAllHashesInRange(first, last) ==
    IF makeslicePanics(hashesCapacity(first, last)) THEN Panicked
    ELSE hashesInRangeLoop(NewIterator(headerPrefix, encodeBlockNumber(first)), 1, last,
                           Len(headerPrefix) + 8 + HashLength, <<>>)

\* the loop of ReadAllCanonicalHashes, from item i of the iterator on
\* the loop of ReadAllCanonicalHashes with the key of `to` let through
RECURSIVE canonicalHashesLoopInclusive(_, _, _, _, _)
canonicalHashesLoopInclusive(it, i, end, limit, acc) ==
    IF i > Len(it) THEN acc
    ELSE IF BytesLess(end, it[i].key) THEN acc
    ELSE IF /\ Len(it[i].key) = Len(headerPrefix) + 8 + 1
            /\ SubSeq(it[i].key, Len(it[i].key), Len(it[i].key)) = headerHashSuffix
    THEN LET next == [acc EXCEPT
                         !.numbers = Append(@, Uint64(SubSeq(it[i].key, Len(headerPrefix) + 1,
                                                             Len(headerPrefix) + 8))),
                         !.hashes = Append(@, BytesToHash(it[i].value))]
         IN  IF Len(next.numbers) >= limit THEN next
             ELSE canonicalHashesLoopInclusive(it, i + 1, end, limit, next)
    ELSE canonicalHashesLoopInclusive(it, i + 1, end, limit, acc)

RECURSIVE canonicalHashesLoop(_, _, _, _, _)
canonicalHashesLoop(it, i, end, limit, acc) ==
    IF i > Len(it) THEN acc
    ELSE IF ~BytesLess(it[i].key, end) THEN acc
    ELSE IF /\ Len(it[i].key) = Len(headerPrefix) + 8 + 1
            /\ SubSeq(it[i].key, Len(it[i].key), Len(it[i].key)) = headerHashSuffix
    THEN LET next == [acc EXCEPT
                         !.numbers = Append(@, Uint64(SubSeq(it[i].key, Len(headerPrefix) + 1,
                                                             Len(headerPrefix) + 8))),
                         !.hashes = Append(@, BytesToHash(it[i].value))]
         IN  IF Len(next.numbers) >= limit THEN next
             ELSE canonicalHashesLoop(it, i + 1, end, limit, next)
    ELSE canonicalHashesLoop(it, i + 1, end, limit, acc)

\* ReadAllCanonicalHashes stopping one entry late
ReadAllCanonicalHashesLate(from, to, limit) ==
    IF limit = 0 THEN [numbers |-> <<>>, hashes |-> <<>>, iterated |-> FALSE]
    ELSE canonicalHashesLoop(NewIterator(<<>>, KeyBytes(headerHashKey(from))), 1,
                             KeyBytes(headerHashKey(to)), limit + 1,
                             [numbers |-> <<>>, hashes |-> <<>>, iterated |-> TRUE])

\* ReadAllCanonicalHashes: the numbers, the hashes, and whether an iterator
\* was created
ReadAllCanonicalHashes(from, to, limit) ==
    IF limit = 0 THEN [numbers |-> <<>>, hashes |-> <<>>, iterated |-> FALSE]
    ELSE canonicalHashesLoop(NewIterator(<<>>, KeyBytes(headerHashKey(from))), 1,
                             KeyBytes(headerHashKey(to)), limit,
                             [numbers |-> <<>>, hashes |-> <<>>, iterated |-> TRUE])

----------------------------------------------------------------------------
(* State *)

Idle ==
    [op |-> "", hash |-> ZeroHash, num |-> 0, pc |-> "idle", data |-> <<>>,
     ret |-> <<>>, has |-> FALSE, src |-> "", inLive |-> <<>>, canon |-> FALSE]

\* no call has returned yet
NoCall == [op |-> "", calls |-> 0]

\* the callers of WriteBadBlock of the concurrent runs
Callers == 1..2

\* no WriteBadBlock call made yet
NoBadCalls == [c \in Callers |-> [pc |-> "idle", header |-> HeaderOf(1), blob |-> <<>>]]

MigIdle == [pc |-> "idle", num |-> 0, hash |-> ZeroHash, todo |-> <<>>]

Init ==
    /\ live = <<>>
    /\ ancient = [t \in {freezerHashTable, freezerHeaderTable, freezerBodiesTable,
                         freezerReceiptTable, freezerDifficultyTable} |-> <<>>]
    /\ mig = MigIdle
    /\ rd = Idle
    /\ wr = <<>>
    /\ reported = {}
    /\ call = NoCall
    /\ bad = NoBadCalls

----------------------------------------------------------------------------
(* Writers, each call as one step *)

\* a writer may be called: no read and no stepwise write is in flight, and the
\* migrator is between two blocks (it issues its deletes as one batch, which
\* no writer interleaves)
Callable == rd.pc = "idle" /\ mig.pc = "idle" /\ wr = <<>>

CallWriteCanonicalHash ==
    /\ Callable
    /\ \E hd \in Headers : live' = Run(live, WriteCanonicalHash(Hash(hd), hd.Number))
    /\ UNCHANGED <<ancient, mig, rd, wr, reported, call, bad>>

CallDeleteCanonicalHash ==
    /\ Callable
    /\ \E hd \in Headers : live' = Run(live, DeleteCanonicalHash(hd.Number))
    /\ UNCHANGED <<ancient, mig, rd, wr, reported, call, bad>>

CallWriteHeader ==
    /\ Callable
    /\ \E hd \in Headers : live' = Run(live, WriteHeader(hd))
    /\ UNCHANGED <<ancient, mig, rd, wr, reported, call, bad>>

CallDeleteHeader ==
    /\ Callable
    /\ \E hd \in Headers : live' = Run(live, DeleteHeader(Hash(hd), hd.Number))
    /\ UNCHANGED <<ancient, mig, rd, wr, reported, call, bad>>

CallWriteBody ==
    /\ Callable
    /\ \E hd \in Headers : live' = Run(live, WriteBody(Hash(hd), hd.Number, BodyOf(hd)))
    /\ UNCHANGED <<ancient, mig, rd, wr, reported, call, bad>>

CallDeleteBody ==
    /\ Callable
    /\ \E hd \in Headers : live' = Run(live, DeleteBody(Hash(hd), hd.Number))
    /\ UNCHANGED <<ancient, mig, rd, wr, reported, call, bad>>

CallWriteTd ==
    /\ Callable
    /\ \E hd \in Headers : live' = Run(live, WriteTd(Hash(hd), hd.Number, TdOf(hd)))
    /\ UNCHANGED <<ancient, mig, rd, wr, reported, call, bad>>

CallDeleteTd ==
    /\ Callable
    /\ \E hd \in Headers : live' = Run(live, DeleteTd(Hash(hd), hd.Number))
    /\ UNCHANGED <<ancient, mig, rd, wr, reported, call, bad>>

CallWriteReceipts ==
    /\ Callable
    /\ \E hd \in Headers : live' = Run(live, WriteReceipts(Hash(hd), hd.Number, ReceiptsOf(hd)))
    /\ UNCHANGED <<ancient, mig, rd, wr, reported, call, bad>>

CallDeleteReceipts ==
    /\ Callable
    /\ \E hd \in Headers : live' = Run(live, DeleteReceipts(Hash(hd), hd.Number))
    /\ UNCHANGED <<ancient, mig, rd, wr, reported, call, bad>>

CallWriteBlock ==
    /\ Callable
    /\ \E hd \in Headers : live' = Run(live, WriteBlock(BlockOf(hd)))
    /\ UNCHANGED <<ancient, mig, rd, wr, reported, call, bad>>

CallDeleteBlock ==
    /\ Callable
    /\ \E hd \in Headers : live' = Run(live, DeleteBlock(Hash(hd), hd.Number))
    /\ UNCHANGED <<ancient, mig, rd, wr, reported, call, bad>>

CallDeleteBlockWithoutNumber ==
    /\ Callable
    /\ \E hd \in Headers : live' = Run(live, DeleteBlockWithoutNumber(Hash(hd), hd.Number))
    /\ UNCHANGED <<ancient, mig, rd, wr, reported, call, bad>>

----------------------------------------------------------------------------
(* The migrator: append the next canonical block to every ancient table in *)
(* one batch, then delete it from the live store, one delete at a time     *)

MigFreeze ==
    LET num      == Frozen
        hash     == BytesToHash(Get(headerHashKey(num)))
        header   == Decoded("Header", Get(headerKey(num, hash)))
        body     == Decoded("Body", Get(blockBodyKey(num, hash)))
        receipts == Decoded("Receipts", Get(blockReceiptsKey(num, hash)))
        td       == Decoded("Td", Get(headerTDKey(num, hash)))
    IN  /\ mig.pc = "idle"
        /\ wr = <<>>
        /\ hash # ZeroHash
        /\ header # Nil /\ body # Nil /\ receipts # Nil /\ td # Nil
        /\ ancient' = WriteAncientBlocks(
                          << [Header |-> header[1], Body |-> body[1],
                              Difficulty |-> header[1].Extra + 1] >>,
                          << receipts[1] >>, td[1])
        /\ ancient' # ancient
        /\ mig' = [pc |-> "delete", num |-> num, hash |-> hash,
                   todo |-> DeleteBlockWithoutNumber(hash, num) \o DeleteCanonicalHash(num)]
        /\ UNCHANGED <<live, rd, wr, reported, call, bad>>

MigDelete ==
    /\ mig.pc = "delete"
    /\ live' = Apply(live, Head(mig.todo))
    /\ mig' = IF Len(mig.todo) = 1 THEN MigIdle ELSE [mig EXCEPT !.todo = Tail(@)]
    /\ UNCHANGED <<ancient, rd, wr, reported, call, bad>>

----------------------------------------------------------------------------
(* A reader, one store probe per step *)

\* the probe of the ancient table, by the call r at position pc
ProbeAncient(r) ==
    LET data == Ancient(Table(r.op), r.num)
    IN  IF r.op \in HasOps
        THEN IF HasAncient(r.hash, r.num)
             THEN [r EXCEPT !.pc = "done", !.has = TRUE, !.src = r.pc]
             ELSE [r EXCEPT !.pc = "live"]
        ELSE IF Len(data) > 0
        THEN IF Verifies(r.op)
             THEN [r EXCEPT !.pc = IF r.pc = "ancient1" THEN "hash1" ELSE "hash2",
                            !.data = data]
             ELSE [r EXCEPT !.pc = "done", !.ret = data, !.src = r.pc]
        ELSE IF r.pc = "ancient1"
        THEN [r EXCEPT !.pc = "live"]
        ELSE [r EXCEPT !.pc = "done", !.ret = <<>>, !.src = "none"]

\* a call starts with its first probe of the ancient store
RdStart ==
    \E op \in ReadOps \cup HasOps, hd \in Headers :
        LET hash == IF op = "ReadCanonicalHash" THEN ZeroHash ELSE Hash(hd)
            inLive == Get(LiveKey(op, hash, hd.Number))
            canonical == ReadCanonicalHash(hd.Number)
        IN  /\ rd.pc = "idle"
            /\ wr = <<>>
            /\ rd' = ProbeAncient(
                         [Idle EXCEPT !.op = op, !.hash = hash, !.num = hd.Number,
                                      !.pc = "ancient1", !.inLive = inLive,
                                      !.canon = IF op = "ReadCanonicalHash"
                                                THEN BytesToHash(inLive) = canonical
                                                ELSE hash = canonical])
            /\ UNCHANGED <<live, ancient, mig, wr, reported, call, bad>>

\* the comparison of the ancient hash entry with the requested hash
RdHash ==
    /\ rd.pc \in {"hash1", "hash2"}
    /\ rd' = IF BytesToHash(Ancient(freezerHashTable, rd.num)) = rd.hash
             THEN [rd EXCEPT !.pc = "done", !.ret = rd.data, !.data = <<>>,
                             !.src = IF rd.pc = "hash1" THEN "ancient1" ELSE "ancient2"]
             ELSE IF rd.pc = "hash1"
             THEN [rd EXCEPT !.pc = "live", !.data = <<>>]
             ELSE [rd EXCEPT !.pc = "done", !.ret = <<>>, !.data = <<>>, !.src = "none"]
    /\ UNCHANGED <<live, ancient, mig, wr, reported, call, bad>>

\* the probe of the live store
RdLive ==
    LET key == LiveKey(rd.op, rd.hash, rd.num)
    IN  /\ rd.pc = "live"
        /\ rd' = IF rd.op \in HasOps
                 THEN [rd EXCEPT !.pc = "done", !.has = Has(key), !.src = "live"]
                 ELSE IF Len(Get(key)) > 0
                 THEN [rd EXCEPT !.pc = "done", !.ret = Get(key), !.src = "live"]
                 ELSE IF Rechecks(rd.op)
                 THEN [rd EXCEPT !.pc = "ancient2"]
                 ELSE [rd EXCEPT !.pc = "done", !.ret = <<>>, !.src = "none"]
        /\ UNCHANGED <<live, ancient, mig, wr, reported, call, bad>>

\* the repeated probe of the ancient store
RdAncient ==
    /\ rd.pc = "ancient2"
    /\ rd' = ProbeAncient(rd)
    /\ UNCHANGED <<live, ancient, mig, wr, reported, call, bad>>

\* the call returns to its caller
RdReturn ==
    /\ rd.pc = "done"
    /\ rd' = Idle
    /\ UNCHANGED <<live, ancient, mig, wr, reported, call, bad>>

----------------------------------------------------------------------------
(* Specification Spec: the writers call by call and the migrator step by   *)
(* step; every reader is evaluated as one call on each state               *)

Next ==
    \/ CallWriteCanonicalHash
    \/ CallDeleteCanonicalHash
    \/ CallWriteHeader
    \/ CallDeleteHeader
    \/ CallWriteBody
    \/ CallDeleteBody
    \/ CallWriteTd
    \/ CallDeleteTd
    \/ CallWriteReceipts
    \/ CallDeleteReceipts
    \/ CallWriteBlock
    \/ CallDeleteBlock
    \/ CallDeleteBlockWithoutNumber
    \/ MigFreeze
    \/ MigDelete

Spec == Init /\ [][Next]_vars

----------------------------------------------------------------------------
(* Specification SpecRace: a reader probe by probe against the migrator;   *)
(* the block import fills the live store between two reads                 *)

NextRace ==
    \/ CallWriteBlock
    \/ CallWriteReceipts
    \/ CallWriteTd
    \/ CallWriteCanonicalHash
    \/ CallDeleteBlock
    \/ MigFreeze
    \/ MigDelete
    \/ RdStart
    \/ RdHash
    \/ RdLive
    \/ RdAncient
    \/ RdReturn

SpecRace == Init /\ [][NextRace]_vars

----------------------------------------------------------------------------
(* Specification SpecIndex: the writers of the two indices and the block   *)
(* import, call by call, and the migrator                                  *)

NextIndex ==
    \/ CallWriteHeader
    \/ CallDeleteHeader
    \/ CallWriteCanonicalHash
    \/ CallDeleteCanonicalHash
    \/ CallWriteBlock
    \/ CallWriteReceipts
    \/ CallWriteTd
    \/ CallDeleteBlock
    \/ MigFreeze
    \/ MigDelete

SpecIndex == Init /\ [][NextIndex]_vars

----------------------------------------------------------------------------
(* Claims *)

\* the call in flight has returned, and when it started the live store held
\* the record it asks for, the record of the canonical block of its number
ReturnedForLiveCanonical(ops) ==
    /\ rd.pc = "done"
    /\ rd.op \in ops
    /\ rd.canon
    /\ Len(rd.inLive) > 0

\* C1: a Read*RLP or ReadCanonicalHash whose canonical record is in the live
\* store when the call starts returns that record, never absent, wherever the
\* migrator's append and deletes fall between the call's probes.
C1_MigrationTolerance ==
    ReturnedForLiveCanonical(ReadOps) => rd.ret = rd.inLive

\* C1 witness: the record was found by the repeated ancient probe, after the
\* first ancient probe and the live probe both missed it.
C1_Witness ==
    ReturnedForLiveCanonical(ReadOps) /\ rd.src = "ancient2"

\* C2: a Has* whose canonical record is in the live store when the call
\* starts returns true, wherever the migrator moves the record during the call.
C2_HasDuringMigration ==
    ReturnedForLiveCanonical(HasOps) => rd.has = TRUE

VerifiedOps == {"ReadBodyRLP", "ReadTdRLP", "ReadReceiptsRLP"}

\* the hash the ancient hash table holds for the number, zero when none
AncientHash(number) == BytesToHash(Ancient(freezerHashTable, number))

\* C3: ReadBodyRLP, ReadReceiptsRLP and ReadTdRLP return the ancient entry at
\* the number only when the ancient hash entry at that number equals the
\* requested hash; when it differs the result is the live value under the
\* hash-qualified key, or absent.  Stated of a whole call made on a state
\* with no read in flight, and of the call in flight, run probe by probe.
C3_HashVerification ==
    /\ rd.pc = "idle" =>
          \A op \in VerifiedOps, hd \in Headers :
              LET r == ReadTwoTier(op, Hash(hd), hd.Number)
                  inLive == Get(LiveKey(op, Hash(hd), hd.Number))
              IN  /\ AncientHash(hd.Number) # Hash(hd) => r = inLive
                  /\ r # inLive => /\ AncientHash(hd.Number) = Hash(hd)
                                   /\ r = Ancient(Table(op), hd.Number)
    /\ (rd.pc = "done" /\ rd.op \in VerifiedOps) =>
          /\ rd.src \in {"ancient1", "ancient2"} =>
                /\ AncientHash(rd.num) = rd.hash
                /\ rd.ret = Ancient(Table(rd.op), rd.num)
          /\ AncientHash(rd.num) # rd.hash =>
                rd.ret = Get(LiveKey(rd.op, rd.hash, rd.num))

\* C3 witness: the ancient store holds another block at the number, and the
\* call has returned the live value of the requested one.
C3_Witness ==
    /\ rd.pc = "done" /\ rd.op \in VerifiedOps
    /\ AncientHash(rd.num) \notin {ZeroHash, rd.hash}
    /\ rd.src = "live"
    /\ Len(rd.ret) > 0

\* C4: the bytes ReadHeaderRLP returns for (hash, number) are those of the
\* header whose hash is the requested hash; a canonical header the ancient
\* store holds at the number under another hash is not returned.
C4_HeaderHashComparison ==
    \A hd \in Headers :
        LET r == ReadHeader(Hash(hd), hd.Number)
        IN  r # Nil => Hash(r[1]) = Hash(hd)

\* the step is one whole call of the writer that issues the operations `ops`
Called(ops) ==
    /\ Callable
    /\ live' = Run(live, ops)
    /\ UNCHANGED <<ancient, mig, rd, wr, reported, call, bad>>

\* C5: a header, body, receipt list or total difficulty written with
\* WriteHeader, WriteBody, WriteReceipts or WriteTd is read back equal by
\* ReadHeader, ReadBody, ReadRawReceipts or ReadTd with the same (hash,
\* number), in every reachable state of the two stores.
C5_RoundTrip ==
    [][\A hd \in Headers :
          /\ Called(WriteHeader(hd)) =>
                ReadHeader(Hash(hd), hd.Number)' = Some(hd)
          /\ Called(WriteBody(Hash(hd), hd.Number, BodyOf(hd))) =>
                ReadBody(Hash(hd), hd.Number)' = Some(BodyOf(hd))
          /\ Called(WriteReceipts(Hash(hd), hd.Number, ReceiptsOf(hd))) =>
                ReadRawReceipts(Hash(hd), hd.Number)' = Some(ReceiptsOf(hd))
          /\ Called(WriteTd(Hash(hd), hd.Number, TdOf(hd))) =>
                ReadTd(Hash(hd), hd.Number)' = Some(TdOf(hd))]_vars

\* C6: after WriteHeader(h), ReadHeaderNumber(hash(h)) returns h.number, and
\* after WriteCanonicalHash(hash(h), h.number), ReadCanonicalHash(h.number)
\* returns hash(h).
C6_IndexSymmetry ==
    [][\A hd \in Headers :
          /\ Called(WriteHeader(hd)) =>
                ReadHeaderNumber(Hash(hd))' = Some(hd.Number)
          /\ Called(WriteCanonicalHash(Hash(hd), hd.Number)) =>
                ReadCanonicalHash(hd.Number)' = Hash(hd)]_vars

\* C6, amended: after WriteHeader(h), ReadHeaderNumber(hash(h)) returns
\* h.number; after WriteCanonicalHash(hash(h), h.number),
\* ReadCanonicalHash(h.number) returns hash(h) when the ancient hash table
\* holds no entry for h.number and the hash of that ancient entry when it
\* holds one; and a step that leaves the live key of a number as it is leaves
\* the hash read for the number as it is.
C6_IndexSymmetryAmended ==
    [][/\ \A hd \in Headers :
             /\ Called(WriteHeader(hd)) =>
                   ReadHeaderNumber(Hash(hd))' = Some(hd.Number)
             /\ Called(WriteCanonicalHash(Hash(hd), hd.Number)) =>
                   ReadCanonicalHash(hd.Number)' =
                       IF AncientErr(freezerHashTable, hd.Number)
                       THEN Hash(hd)
                       ELSE AncientHash(hd.Number)
       /\ \A hd \in Headers :
             Get(headerHashKey(hd.Number))' = Get(headerHashKey(hd.Number)) =>
                 ReadCanonicalHash(hd.Number)' = ReadCanonicalHash(hd.Number)]_vars

\* C6 witness: the canonical hash of a number was written to the live store
\* while the ancient hash table holds another hash for that number.
C6_Witness ==
    \E hd \in Headers :
        /\ ~AncientErr(freezerHashTable, hd.Number)
        /\ Len(Get(headerHashKey(hd.Number))) > 0
        /\ BytesToHash(Get(headerHashKey(hd.Number))) # AncientHash(hd.Number)
        /\ ReadHeaderNumber(Hash(hd)) = Some(hd.Number)

\* what the five readers return for a block
AllReads(hash, number) ==
    << ReadHeader(hash, number), ReadBody(hash, number),
       ReadRawReceipts(hash, number), ReadTd(hash, number),
       ReadCanonicalHash(number) >>

\* the block the migrator moves in this step
Moved == IF mig.pc = "delete" THEN mig ELSE mig'

\* C8: across the migrator's move of a block (the append to the ancient
\* tables and every delete from the live store), the header, body, receipts,
\* total difficulty and canonical hash are found before and after, with
\* identical content.
C8_StableAcrossMigration ==
    [][\A hd \in Headers :
          (mig' # mig /\ Moved.hash = Hash(hd) /\ Moved.num = hd.Number) =>
              /\ AllReads(Hash(hd), hd.Number)' = AllReads(Hash(hd), hd.Number)
              /\ \A i \in 1..4 : AllReads(Hash(hd), hd.Number)[i] # Nil
              /\ ReadCanonicalHash(hd.Number) = Hash(hd)]_vars

\* C8 witness: the move of a block is complete (the live store no longer
\* holds its body, receipts or header) and the readers still find it.
C8_Witness ==
    /\ mig.pc = "idle"
    /\ ~AncientErr(freezerHashTable, 0)
    /\ ~Has(blockBodyKey(0, AncientHash(0)))
    /\ ~Has(headerKey(0, AncientHash(0)))
    /\ ~Has(headerHashKey(0))
    /\ \A i \in 1..4 : AllReads(AncientHash(0), 0)[i] # Nil
    /\ ReadCanonicalHash(0) = AncientHash(0)

----------------------------------------------------------------------------
(* Specification SpecSteps: one writer, one store operation per step *)

BeginWriteHeader ==
    /\ Callable
    /\ \E hd \in Headers : wr' = WriteHeader(hd)
    /\ UNCHANGED <<live, ancient, mig, rd, reported, call, bad>>

BeginWriteBlock ==
    /\ Callable
    /\ \E hd \in Headers : wr' = WriteBlock(BlockOf(hd))
    /\ UNCHANGED <<live, ancient, mig, rd, reported, call, bad>>

BeginDeleteHeader ==
    /\ Callable
    /\ \E hd \in Headers : wr' = DeleteHeader(Hash(hd), hd.Number)
    /\ UNCHANGED <<live, ancient, mig, rd, reported, call, bad>>

BeginDeleteBlock ==
    /\ Callable
    /\ \E hd \in Headers : wr' = DeleteBlock(Hash(hd), hd.Number)
    /\ UNCHANGED <<live, ancient, mig, rd, reported, call, bad>>

BeginDeleteBlockWithoutNumber ==
    /\ Callable
    /\ \E hd \in Headers : wr' = DeleteBlockWithoutNumber(Hash(hd), hd.Number)
    /\ UNCHANGED <<live, ancient, mig, rd, reported, call, bad>>

\* the next put or delete of the call in flight
StoreStep ==
    /\ wr # <<>>
    /\ live' = Apply(live, Head(wr))
    /\ wr' = Tail(wr)
    /\ UNCHANGED <<ancient, mig, rd, reported, call, bad>>

NextSteps ==
    \/ BeginWriteHeader
    \/ BeginWriteBlock
    \/ BeginDeleteHeader
    \/ BeginDeleteBlock
    \/ BeginDeleteBlockWithoutNumber
    \/ StoreStep

SpecSteps == Init /\ [][NextSteps]_vars

\* C7: at every point of a sequential run of WriteHeader, WriteBlock,
\* DeleteHeader, DeleteBlock and DeleteBlockWithoutNumber, between the puts
\* and deletes of one call too, every header in the live store has its
\* hash-to-number entry in the live store.
C7_HeaderHasNumber ==
    \A hd \in Headers :
        Has(headerKey(hd.Number, Hash(hd))) => Has(headerNumberKey(Hash(hd)))

\* C7 witness: a WriteHeader is between its two puts, the hash-to-number
\* entry stored and the header not yet.
C7_Witness ==
    \E hd \in Headers :
        /\ wr = << PutOp(headerKey(hd.Number, Hash(hd)), EncodeToBytes("Header", hd)) >>
        /\ Has(headerNumberKey(Hash(hd)))
        /\ ~Has(headerKey(hd.Number, Hash(hd)))

----------------------------------------------------------------------------
(* Specification SpecBad: the bad-block list, call by call *)

CallWriteBadBlock ==
    /\ Callable
    /\ \E hd \in BadHeaders :
          \E sorted \in SortReverse(Appended(live, BlockOf(hd))) :
              live' = Run(live, WriteBadBlock(live, BlockOf(hd), sorted))
    /\ UNCHANGED <<ancient, mig, rd, wr, reported, call, bad>>

CallDeleteBadBlocks ==
    /\ Callable
    /\ live' = Run(live, DeleteBadBlocks)
    /\ UNCHANGED <<ancient, mig, rd, wr, reported, call, bad>>

NextBad == CallWriteBadBlock \/ CallDeleteBadBlocks

SpecBad == Init /\ [][NextBad]_vars

\* C9: after any run of WriteBadBlock and DeleteBadBlocks the stored list has
\* at most 10 entries, at most one entry per (number, hash), and is ordered by
\* number, non-increasing.
C9_BadBlockList ==
    LET list == badBlocksIn(live)
    IN  /\ Len(list) <= 10
        /\ \A i, j \in DOMAIN list :
              (list[i].Header.Number = list[j].Header.Number
               /\ Hash(list[i].Header) = Hash(list[j].Header)) => i = j
        /\ \A i, j \in DOMAIN list :
              i < j => list[i].Header.Number >= list[j].Header.Number

\* C9 witness: the list is full and holds two blocks of one number.
C9_Witness ==
    LET list == badBlocksIn(live)
    IN  /\ Len(list) = 10
        /\ \E i, j \in DOMAIN list :
              i # j /\ list[i].Header.Number = list[j].Header.Number

\* C10: WriteBadBlock of a block whose number and hash an entry of the stored
\* list already has performs no put and leaves the stored list unchanged.
C10_ReinsertIsNoOp ==
    \A hd \in BadHeaders :
        (\E i \in DOMAIN badBlocksIn(live) : badBlocksIn(live)[i].Header = hd) =>
            \A sorted \in SortReverse(Appended(live, BlockOf(hd))) :
                /\ WriteBadBlock(live, BlockOf(hd), sorted) = <<>>
                /\ badBlocksIn(Run(live, WriteBadBlock(live, BlockOf(hd), sorted)))
                       = badBlocksIn(live)

\* C10 witness: the stored list holds two blocks of one number, so that a
\* block may match an entry in its number and not in its hash.
C10_Witness ==
    LET list == badBlocksIn(live)
    IN  \E i, j \in DOMAIN list :
            /\ i # j
            /\ list[i].Header.Number = list[j].Header.Number
            /\ Hash(list[i].Header) # Hash(list[j].Header)

----------------------------------------------------------------------------
(* Specification SpecRetain: WriteBadBlock called, starting from the empty *)
(* list, with blocks of pairwise distinct numbers, in any order            *)

\* the blocks of the run: one per number
RetainHeaders == {HeaderOf(2 * i - 1) : i \in 1..NumBadBlocks}

ReportBadBlock ==
    /\ Callable
    /\ \E hd \in RetainHeaders :
          /\ \E sorted \in SortReverse(Appended(live, BlockOf(hd))) :
                live' = Run(live, WriteBadBlock(live, BlockOf(hd), sorted))
          /\ reported' = reported \cup {hd}
    /\ UNCHANGED <<ancient, mig, rd, wr, call, bad>>

NextRetain == ReportBadBlock

SpecRetain == Init /\ [][NextRetain]_vars

\* C11: once WriteBadBlock has been called, from the empty list, with more
\* than 10 blocks of pairwise distinct numbers, in whatever order, the stored
\* list holds exactly 10 entries, and they are the 10 blocks of highest number
\* among all the blocks the calls were made with.
C11_Retention ==
    Cardinality(reported) > 10 =>
        LET list == badBlocksIn(live)
            stored == {list[i].Header : i \in DOMAIN list}
        IN  /\ Len(list) = 10
            /\ Cardinality(stored) = 10
            /\ stored \subseteq reported
            /\ \A kept \in stored, dropped \in reported \ stored :
                  dropped.Number < kept.Number

\* C11 witness: more than 10 blocks were reported, and the stored list lacks
\* one of them.
C11_Witness ==
    /\ Cardinality(reported) > 10
    /\ \E hd \in reported :
          \A i \in DOMAIN badBlocksIn(live) : badBlocksIn(live)[i].Header # hd

----------------------------------------------------------------------------
(* Specification SpecLogs: bodies and receipt lists of every shape written *)
(* for one block, and ReadLogs called on it                                *)

\* the block whose logs are read
LogHeader == HeaderOf(1)

\* bodies of 0..MaxTxs transactions
LogBodies ==
    {[Transactions |-> [i \in 1..n |-> 10 * Hash(LogHeader) + i]] : n \in 0..MaxTxs}

\* stored receipt lists of 0..MaxTxs+2 receipts, each of 0..MaxLogs logs
LogReceipts ==
    UNION {{[i \in 1..n |->
                [PostStateOrStatus |-> 1, CumulativeGasUsed |-> i,
                 Logs |-> [j \in 1..counts[i] |-> StoredLog(10 * i + j)]]] :
            counts \in [1..n -> 0..MaxLogs]} : n \in 0..(MaxTxs + 2)}

CallWriteLogBody ==
    /\ Callable
    /\ \E body \in LogBodies :
          live' = Run(live, WriteBody(Hash(LogHeader), LogHeader.Number, body))
    /\ UNCHANGED <<ancient, mig, rd, wr, reported, call, bad>>

CallWriteLogReceipts ==
    /\ Callable
    /\ \E receipts \in LogReceipts :
          live' = Run(live, WriteReceipts(Hash(LogHeader), LogHeader.Number, receipts))
    /\ UNCHANGED <<ancient, mig, rd, wr, reported, call, bad>>

CallReadLogs ==
    /\ Callable
    /\ rd' = [Idle EXCEPT !.op = "ReadLogs", !.hash = Hash(LogHeader),
                          !.num = LogHeader.Number, !.pc = "done",
                          !.ret = ReadLogs(Hash(LogHeader), LogHeader.Number)]
    /\ UNCHANGED <<live, ancient, mig, wr, reported, call, bad>>

NextLogs ==
    \/ CallWriteLogBody
    \/ CallWriteLogReceipts
    \/ CallDeleteBody
    \/ CallDeleteReceipts
    \/ CallReadLogs
    \/ RdReturn

SpecLogs == Init /\ [][NextLogs]_vars

\* a ReadLogs call has returned, with the body and the receipts of the block
\* both stored: the transactions and the receipts it has read
LogsRead == rd.pc = "done" /\ rd.op = "ReadLogs"

StoredTxs == ReadBody(rd.hash, rd.num)[1].Transactions

StoredReceiptLogs == DecodeReceiptLogs(ReadReceiptsRLP(rd.hash, rd.num))

BothStored ==
    /\ LogsRead
    /\ ReadBody(rd.hash, rd.num) # Nil
    /\ Len(ReadReceiptsRLP(rd.hash, rd.num)) > 0

\* the logs of rows i.. of a list of log lists, in one sequence
RECURSIVE Flatten(_, _)
Flatten(rows, i) == IF i > Len(rows) THEN <<>> ELSE rows[i] \o Flatten(rows, i + 1)

\* C12: deriveLogFields succeeds exactly when the receipts are as many as the
\* transactions, or one more; for any other count it fails and leaves every
\* log as it was, and ReadLogs returns nil.
C12_CountCheck ==
    BothStored =>
        LET derived == deriveLogFields(StoredReceiptLogs, rd.hash, rd.num, StoredTxs)
            fits == \/ Len(StoredReceiptLogs) = Len(StoredTxs)
                    \/ Len(StoredReceiptLogs) = Len(StoredTxs) + 1
        IN  /\ ~derived.err <=> fits
            /\ ~fits => /\ derived.receipts = StoredReceiptLogs
                        /\ rd.ret = Nil
            /\ fits => rd.ret # Nil

\* C12 witness: ReadLogs has returned nil for two receipts more than
\* transactions, the receipts holding logs.
C12_Witness ==
    /\ BothStored
    /\ Len(StoredReceiptLogs) = Len(StoredTxs) + 2
    /\ Len(Flatten([i \in DOMAIN StoredReceiptLogs |-> StoredReceiptLogs[i].Logs], 1)) > 1
    /\ rd.ret = Nil

\* C13: when deriveLogFields succeeds, the logs of the block in receipt order
\* and then log order carry the indices 0, 1, 2, ..., and every log of
\* receipt i, i below the number of transactions, carries the block number,
\* the block hash, the hash of transaction i and the transaction index i.
C13_LogFields ==
    (BothStored /\ rd.ret # Nil) =>
        LET logs == rd.ret[1]
            all == Flatten(logs, 1)
        IN  /\ Len(logs) = Len(StoredReceiptLogs)
            /\ \A i \in DOMAIN logs : Len(logs[i]) = Len(StoredReceiptLogs[i].Logs)
            /\ \A k \in DOMAIN all : all[k].Index = k - 1
            /\ \A i \in DOMAIN logs : i <= Len(StoredTxs) =>
                  \A j \in DOMAIN logs[i] :
                      /\ logs[i][j].BlockNumber = rd.num
                      /\ logs[i][j].BlockHash = rd.hash
                      /\ logs[i][j].TxHash = TxHashOf(StoredTxs[i])
                      /\ logs[i][j].TxIndex = i - 1

\* C13 witness: logs were returned for two transactions, the first with two
\* logs and the second with one at least.
C13_Witness ==
    /\ BothStored /\ rd.ret # Nil
    /\ Len(StoredTxs) = 2
    /\ Len(rd.ret[1][1]) = 2
    /\ Len(rd.ret[1][2]) >= 1

\* C14: with one receipt more than transactions, every log of the last
\* receipt has the block hash as its transaction hash and the number of
\* transactions as its transaction index, and its log indices continue those
\* of the transactions' logs.
C14_FinalizationReceipt ==
    (BothStored /\ rd.ret # Nil /\ Len(StoredReceiptLogs) = Len(StoredTxs) + 1) =>
        LET logs == rd.ret[1]
            last == logs[Len(logs)]
            before == Len(Flatten(SubSeq(logs, 1, Len(logs) - 1), 1))
        IN  \A k \in DOMAIN last :
                /\ last[k].TxHash = rd.hash
                /\ last[k].TxIndex = Len(StoredTxs)
                /\ last[k].BlockHash = rd.hash
                /\ last[k].BlockNumber = rd.num
                /\ last[k].Index = before + k - 1

\* C14 witness: logs were returned for a block with transactions that have
\* logs and a finalization receipt that has logs.
C14_Witness ==
    /\ BothStored /\ rd.ret # Nil
    /\ Len(StoredReceiptLogs) = Len(StoredTxs) + 1
    /\ Len(StoredTxs) >= 1
    /\ Len(rd.ret[1][1]) >= 1
    /\ Len(rd.ret[1][Len(rd.ret[1])]) >= 2

----------------------------------------------------------------------------
(* Claims on FindCommonAncestor, of calls on the states of Spec *)

\* the headers FindCommonAncestor is called with: the blocks of the store and
\* their children
ArgHeaders == {HeaderOf(i) : i \in 1..(NumBlocks + 2)}

\* a header of this hash and number is stored, in the live store or in the
\* ancient header table
StoredHeader(hash, number) ==
    \/ Has(headerKey(number, hash))
    \/ /\ ~AncientErr(freezerHeaderTable, number)
       /\ Hash(DecodeBytes("Header", Ancient(freezerHeaderTable, number))) = hash

\* the header and the headers reachable from it by parent links
RECURSIVE AncestorsOf(_)
AncestorsOf(header) ==
    {header} \cup UNION {AncestorsOf(p) : p \in {h \in ArgHeaders : /\ Hash(h) = header.ParentHash
                                                                     /\ h.Number + 1 = header.Number}}

\* every header on the parent chain of the header, below it, is stored
ChainStored(header) ==
    \A h \in AncestorsOf(header) \ {header} : StoredHeader(Hash(h), h.Number)

CommonAncestors(a, b) == AncestorsOf(a) \cap AncestorsOf(b)

\* C15: for two headers whose parent chains are stored, in either tier, and
\* share an ancestor, FindCommonAncestor returns the highest header reachable
\* from both by parent links; it returns a when a is an ancestor of b.
C15_CommonAncestor ==
    \A a, b \in ArgHeaders :
        (ChainStored(a) /\ ChainStored(b) /\ CommonAncestors(a, b) # {}) =>
            \E fork \in CommonAncestors(a, b) :
                /\ \A h \in CommonAncestors(a, b) : h.Number <= fork.Number
                /\ FindCommonAncestor(a, b).ret = Some(fork)

\* C16: when a parent lookup of FindCommonAncestor misses (no header of the
\* hash and number looked up is stored) it is the last lookup of the call and
\* the call returns nil; two headers with no stored common ancestor resolve to
\* nil.
C16_AncestorGap ==
    \A a, b \in ArgHeaders :
        LET r == FindCommonAncestor(a, b)
        IN  /\ \A k \in DOMAIN r.lookups :
                  ~StoredHeader(r.lookups[k].hash, r.lookups[k].number) =>
                      k = Len(r.lookups) /\ r.ret = Nil
            /\ (\A h \in CommonAncestors(a, b) :
                    h \notin {a, b} /\ ~StoredHeader(Hash(h), h.Number)) => r.ret = Nil

----------------------------------------------------------------------------
(* Specification SpecRange: headers, total difficulties and canonical      *)
(* hashes written over several heights; the range reads on every state     *)

\* blocks of the range reads: block i has number (i-1) \div 2
NumRange == 3

RangeHeaders == {HeaderOf(i) : i \in 1..NumRange}

\* the numbers of the calls: those of the blocks, and one above
RangeNumbers == 0..((NumRange - 1) \div 2 + 1)

CallWriteRangeHeader ==
    /\ Callable
    /\ \E hd \in RangeHeaders : live' = Run(live, WriteHeader(hd))
    /\ UNCHANGED <<ancient, mig, rd, wr, reported, call, bad>>

CallDeleteRangeHeader ==
    /\ Callable
    /\ \E hd \in RangeHeaders : live' = Run(live, DeleteHeader(Hash(hd), hd.Number))
    /\ UNCHANGED <<ancient, mig, rd, wr, reported, call, bad>>

CallWriteRangeTd ==
    /\ Callable
    /\ \E hd \in RangeHeaders : live' = Run(live, WriteTd(Hash(hd), hd.Number, TdOf(hd)))
    /\ UNCHANGED <<ancient, mig, rd, wr, reported, call, bad>>

CallWriteRangeCanonicalHash ==
    /\ Callable
    /\ \E hd \in RangeHeaders : live' = Run(live, WriteCanonicalHash(Hash(hd), hd.Number))
    /\ UNCHANGED <<ancient, mig, rd, wr, reported, call, bad>>

NextRange ==
    \/ CallWriteRangeHeader
    \/ CallDeleteRangeHeader
    \/ CallWriteRangeTd
    \/ CallWriteRangeCanonicalHash

SpecRange == Init /\ [][NextRange]_vars

\* the numbers from..to-1 that have a canonical entry in the live store
CanonicalIn(from, to) == {n \in RangeNumbers : from <= n /\ n < to /\ Has(headerHashKey(n))}

Min(a, b) == IF a < b THEN a ELSE b

\* C17: ReadAllCanonicalHashes(from, to, limit) with limit > 0 returns at most
\* limit pairs, numbers strictly ascending, the lowest canonical entries at or
\* above from (and below to), each with the canonical hash stored for its
\* number; with limit 0 it returns nothing and creates no iterator.
C17_CanonicalRange ==
    \A from \in RangeNumbers, to \in RangeNumbers, limit \in 0..3 :
        LET r == ReadAllCanonicalHashes(from, to, limit)
        IN  /\ limit = 0 => r.numbers = <<>> /\ r.hashes = <<>> /\ ~r.iterated
            /\ limit > 0 =>
                  /\ Len(r.numbers) = Len(r.hashes)
                  /\ Len(r.numbers) = Min(limit, Cardinality(CanonicalIn(from, to)))
                  /\ \A i \in DOMAIN r.numbers :
                        /\ r.numbers[i] \in CanonicalIn(from, to)
                        /\ r.hashes[i] = BytesToHash(Get(headerHashKey(r.numbers[i])))
                        /\ i > 1 => r.numbers[i - 1] < r.numbers[i]
                        /\ \A n \in CanonicalIn(from, to) :
                              n < r.numbers[i] => \E j \in 1..(i - 1) : r.numbers[j] = n

\* C17 witness: two heights have a canonical entry, next to headers and total
\* difficulties, and a limit of 1 cuts the result.
C17_Witness ==
    /\ Cardinality(CanonicalIn(0, 3)) >= 2
    /\ Len(ReadAllCanonicalHashes(0, 2, 1).numbers) = 1
    /\ \E hd \in RangeHeaders :
          Has(headerKey(hd.Number, Hash(hd))) /\ Has(headerTDKey(hd.Number, Hash(hd)))

\* the (number, hash) pairs of the headers in the live store with a number in
\* first..last
HeadersIn(first, last) ==
    {[Number |-> hd.Number, Hash |-> Hash(hd)] :
        hd \in {h \in RangeHeaders : /\ Has(headerKey(h.Number, Hash(h)))
                                     /\ first <= h.Number /\ h.Number <= last}}

C19_AllHashes ==
    \A number \in RangeNumbers :
        LET r == ReadAllHashes(number)
        IN  /\ {r[i] : i \in DOMAIN r} =
                   {pair.Hash : pair \in HeadersIn(number, number)}
            /\ Len(r) = Cardinality(HeadersIn(number, number))

\* C19 witness: two headers at one number, one of them canonical, with a total
\* difficulty, and a header at another number.
C19_Witness ==
    \E number \in RangeNumbers :
        /\ Len(ReadAllHashes(number)) = 2
        /\ Has(headerHashKey(number))
        /\ \E hd \in RangeHeaders :
              hd.Number = number /\ Has(headerTDKey(number, Hash(hd)))
        /\ \E hd \in RangeHeaders : hd.Number # number /\ Has(headerKey(hd.Number, Hash(hd)))

----------------------------------------------------------------------------
(* ReadBlock, on every state of specification Spec *)

\* the numbers ReadBlock is called with: those of the blocks, and the next
BlockNumbers == 0..((NumBlocks - 1) \div 2 + 1)

\* the body stored for this hash and number: in the live store, or in the
\* ancient body table at a number the ancient store holds under this hash
StoredBody(hash, number) ==
    IF /\ ~AncientErr(freezerBodiesTable, number)
       /\ BytesToHash(Ancient(freezerHashTable, number)) = hash
    THEN Some(DecodeBytes("Body", Ancient(freezerBodiesTable, number)))
    ELSE IF Has(blockBodyKey(number, hash))
    THEN Some(DecodeBytes("Body", Get(blockBodyKey(number, hash))))
    ELSE Nil

\* C20: ReadBlock(hash, number) returns nil when no header of the hash and
\* number is stored, nil when the header is stored and no body is, and
\* otherwise the block made of that header and of the transactions, the
\* randomness and the epoch data of that body; the result is a block or nil,
\* never an error.
C20_ReadBlock ==
    \A hd \in Headers, number \in BlockNumbers :
        LET hash == Hash(hd)
            body == StoredBody(hash, number)
        IN  ReadBlock(hash, number) =
                IF ~StoredHeader(hash, number) THEN Nil
                ELSE IF body = Nil THEN Nil
                ELSE Some(WithBody(hd, body[1].Transactions, body[1].Randomness,
                                   body[1].EpochSnarkData))

----------------------------------------------------------------------------
(* Specification SpecAncient: batches of blocks appended to the ancient    *)
(* store                                                                   *)

\* blocks that may be passed to WriteAncientBlocks: block i has number
\* (i-1) \div 2
NumAncient == 5

\* the longest batch
MaxBatch == 3

AncientHeaders == {HeaderOf(i) : i \in 1..NumAncient}

AncientNumbers == {hd.Number : hd \in AncientHeaders}

\* the total difficulties a batch is written with
BatchTds == {10, 20}

\* the slice in the opposite order
Reversed(list) == [i \in 1..Len(list) |-> list[Len(list) + 1 - i]]

\* batches of consecutive numbers, from any number on
Runs ==
    UNION {{run \in [1..n -> AncientHeaders] :
                \A i \in 1..n : run[i].Number = run[1].Number + i - 1} : n \in 1..MaxBatch}

\* the batches WriteAncientBlocks is called with: the runs, and the runs in
\* descending order
Batches ==
    {[i \in 1..Len(run) |-> BlockOf(run[i])] : run \in Runs \cup {Reversed(run) : run \in Runs}}

\* receipts[i] of the call: the receipts of block i
BatchReceipts(blocks) == [i \in 1..Len(blocks) |-> ReceiptsOf(blocks[i].Header)]

\* the appends one call may make
MaxAppends == 5 * MaxBatch

CallWriteAncientBlocks ==
    /\ Callable
    /\ \E blocks \in Batches, td \in BatchTds :
       \E failAt \in 0..(5 * Len(blocks)) :
          LET r == ModifyAncients(blocks, BatchReceipts(blocks), td, failAt)
          IN  /\ ancient' = r.tables
              /\ call' = [op |-> "WriteAncientBlocks", err |-> r.err, blocks |-> Len(blocks)]
    /\ UNCHANGED <<live, mig, rd, wr, reported, bad>>

NextAncient == CallWriteAncientBlocks

SpecAncient == Init /\ [][NextAncient]_vars

\* the batches next to block imports and block deletes in the live store
NextAncientLive ==
    \/ CallWriteAncientBlocks
    \/ CallWriteBlock
    \/ CallDeleteBlock

SpecAncientLive == Init /\ [][NextAncientLive]_vars

AncientTables ==
    {freezerHashTable, freezerHeaderTable, freezerBodiesTable, freezerReceiptTable,
     freezerDifficultyTable}

\* the sum of the difficulties of blocks first..last of the batch
RECURSIVE SumDifficulty(_, _, _)
SumDifficulty(blocks, first, last) ==
    IF first > last THEN 0
    ELSE blocks[first].Difficulty + SumDifficulty(blocks, first + 1, last)

RECURSIVE ExpectedAppends(_, _)
ExpectedAppends(blocks, i) ==
    IF i > Len(blocks) THEN <<>>
    ELSE [k \in 1..5 |-> [table |-> << freezerHashTable, freezerHeaderTable, freezerBodiesTable,
                                       freezerReceiptTable, freezerDifficultyTable >>[k],
                          num |-> blocks[i].Header.Number]]
         \o ExpectedAppends(blocks, i + 1)

\* the tables and numbers of the appends a call attempted, in order
Attempts(r) == [k \in 1..Len(r.log) |-> [table |-> r.log[k].table, num |-> r.log[k].num]]

\* C22: the appends of WriteAncientBlocks go block by block in slice order;
\* the five appends of a block use the number of that block, in the order
\* hash, header, body, receipts, total difficulty, and come before any append
\* of the next block.  A call that fails has made a prefix of these appends.
C22_AppendOrder ==
    \A blocks \in Batches, td \in BatchTds, failAt \in 0..MaxAppends :
        LET r == ModifyAncients(blocks, BatchReceipts(blocks), td, failAt)
            expected == ExpectedAppends(blocks, 1)
        IN  /\ Len(r.log) <= Len(expected)
            /\ Attempts(r) = SubSeq(expected, 1, Len(r.log))
            /\ ~r.err => Len(r.log) = Len(expected)

\* C22 witness: a batch of three blocks was appended to an ancient store that
\* was empty.
C22_Witness ==
    /\ call.op = "WriteAncientBlocks" /\ ~call.err /\ call.blocks = 3
    /\ \A table \in AncientTables : Len(ancient[table]) = 3

\* C23: when an append of WriteAncientBlocks fails, it is the last append the
\* call attempts, the call returns the error, and the ancient store is what
\* it was before the call; a call returns an error only when an append
\* failed; the five tables always hold the same numbers.
C23_BatchAbort ==
    /\ \A table \in AncientTables : Len(ancient[table]) = Frozen
    /\ \A blocks \in Batches, td \in BatchTds, failAt \in 0..MaxAppends :
          LET r == ModifyAncients(blocks, BatchReceipts(blocks), td, failAt)
              failed == {k \in 1..Len(r.log) :
                            \/ k = failAt
                            \/ r.log[k].num # Frozen + Cardinality({j \in 1..(k - 1) :
                                                  r.log[j].table = r.log[k].table})}
          IN  /\ failed # {} => /\ failed = {Len(r.log)}
                                /\ r.err
                                /\ r.tables = ancient
              /\ failed = {} => ~r.err

\* C23 witness: a batch of several blocks failed on an ancient store that
\* holds blocks, and the store holds no more than before.
C23_Witness ==
    /\ call.op = "WriteAncientBlocks" /\ call.err /\ call.blocks > 1
    /\ Frozen > 0
    /\ \E blocks \in Batches :
          /\ Len(blocks) > 1
          /\ blocks[1].Header.Number = Frozen
          /\ ModifyAncients(blocks, BatchReceipts(blocks), 10, 7).err

\* C24: the entries of every ancient table are those of the numbers from 0
\* up, one per number, and the entries at one number are those of one block;
\* no step removes or changes an entry the ancient store holds.
C24_AppendOnly ==
    /\ [](\A n \in 0..(Frozen - 1) :
            \E hd \in AncientHeaders \cup Headers :
                /\ hd.Number = n
                /\ Ancient(freezerHashTable, n) = HashBytes(Hash(hd))
                /\ Ancient(freezerHeaderTable, n) = EncodeToBytes("Header", hd)
                /\ Ancient(freezerBodiesTable, n) = EncodeToBytes("Body", BodyOf(hd))
                /\ Ancient(freezerReceiptTable, n) = EncodeToBytes("Receipts", ReceiptsOf(hd))
                /\ DecodeOk("Td", Ancient(freezerDifficultyTable, n)))
    /\ [][\A table \in AncientTables :
              /\ Len(ancient'[table]) >= Len(ancient[table])
              /\ SubSeq(ancient'[table], 1, Len(ancient[table])) = ancient[table]]_vars

\* C24 witness: the ancient store holds blocks, the last batch was refused,
\* and the live store holds a header.
C24_Witness ==
    /\ Frozen >= 2
    /\ call.op = "WriteAncientBlocks" /\ call.err
    /\ \E hd \in Headers : Has(headerKey(hd.Number, Hash(hd)))

----------------------------------------------------------------------------
(* Head pointers and ancillary scalars: one key each in the live store *)

headHeaderKey        == [kind |-> "LastHeader", num |-> 0, hash |-> ZeroHash, suffix |-> ""]
headBlockKey         == [kind |-> "LastBlock", num |-> 0, hash |-> ZeroHash, suffix |-> ""]
headFastBlockKey     == [kind |-> "LastFast", num |-> 0, hash |-> ZeroHash, suffix |-> ""]
lastPivotKey         == [kind |-> "LastPivot", num |-> 0, hash |-> ZeroHash, suffix |-> ""]
fastTrieProgressKey  == [kind |-> "TrieSync", num |-> 0, hash |-> ZeroHash, suffix |-> ""]
txIndexTailKey       == [kind |-> "TransactionIndexTail", num |-> 0, hash |-> ZeroHash, suffix |-> ""]
fastTxLookupLimitKey == [kind |-> "FastTransactionLookupLimit", num |-> 0, hash |-> ZeroHash, suffix |-> ""]
uptimeKey(epoch)     == [kind |-> "uptime", num |-> epoch, hash |-> ZeroHash, suffix |-> ""]

\* istanbul.RandomnessCommitmentDBLocation
RandomnessCommitmentDBLocation(commitment) ==
    [kind |-> "db-randomness-commitment", num |-> 0, hash |-> commitment, suffix |-> ""]

\* the three head pointers
HeadKeys == {headHeaderKey, headBlockKey, headFastBlockKey}

\* ReadHeadHeaderHash, ReadHeadBlockHash, ReadHeadFastBlockHash: the hash
\* under the key of the pointer, the zero hash when there is none
ReadHeadHash(key) ==
    LET data == Get(key)
    IN  IF Len(data) = 0 THEN ZeroHash ELSE BytesToHash(data)

ReadHeadHeaderHash == ReadHeadHash(headHeaderKey)

ReadHeadBlockHash == ReadHeadHash(headBlockKey)

ReadHeadFastBlockHash == ReadHeadHash(headFastBlockKey)

\* writes every head pointer at once
WriteHeadHashAll(key, hash) == [i \in 1..3 |-> PutOp(<<headHeaderKey, headBlockKey, headFastBlockKey>>[i], HashBytes(hash))]

\* WriteHeadHeaderHash, WriteHeadBlockHash, WriteHeadFastBlockHash
WriteHeadHash(key, hash) == << PutOp(key, HashBytes(hash)) >>

WriteHeadHeaderHash(hash) == WriteHeadHash(headHeaderKey, hash)

WriteHeadBlockHash(hash) == WriteHeadHash(headBlockKey, hash)

WriteHeadFastBlockHash(hash) == WriteHeadHash(headFastBlockKey, hash)

ReadLastPivotNumber == Decoded("Uint64", Get(lastPivotKey))

WriteLastPivotNumber(pivot) == << PutOp(lastPivotKey, EncodeToBytes("Uint64", pivot)) >>

\* new(big.Int).SetUint64(count).Bytes(): big endian, no leading zero byte,
\* no byte at all for zero
RECURSIVE BigIntBytes(_)
BigIntBytes(count) ==
    IF count = 0 THEN <<>> ELSE Append(BigIntBytes(count \div 256), count % 256)

\* new(big.Int).SetBytes(data).Uint64()
ReadFastTrieProgress ==
    LET data == Get(fastTrieProgressKey)
    IN  IF Len(data) = 0 THEN 0 ELSE BigEndian(data, Len(data))

WriteFastTrieProgress(count) == << PutOp(fastTrieProgressKey, BigIntBytes(count)) >>

\* ReadTxIndexTail, ReadFastTxLookupLimit: nil unless the value has 8 bytes
ReadNumber(key) ==
    LET data == Get(key)
    IN  IF Len(data) # 8 THEN Nil ELSE Some(Uint64(data))

ReadTxIndexTail == ReadNumber(txIndexTailKey)

WriteTxIndexTail(number) == << PutOp(txIndexTailKey, encodeBlockNumber(number)) >>

ReadFastTxLookupLimit == ReadNumber(fastTxLookupLimitKey)

WriteFastTxLookupLimit(number) == << PutOp(fastTxLookupLimitKey, encodeBlockNumber(number)) >>

ReadAccumulatedEpochUptime(epoch) == Decoded("Uptime", Get(uptimeKey(epoch)))

\* stores the uptime of every epoch under one key
WriteAccumulatedEpochUptimeOneKey(epoch, uptime) ==
    << PutOp(uptimeKey(0), EncodeToBytes("Uptime", uptime)) >>

WriteAccumulatedEpochUptime(epoch, uptime) ==
    << PutOp(uptimeKey(epoch), EncodeToBytes("Uptime", uptime)) >>

ReadRandomCommitmentCache(commitment) ==
    BytesToHash(Get(RandomnessCommitmentDBLocation(commitment)))

WriteRandomCommitmentCache(commitment, parentHash) ==
    << PutOp(RandomnessCommitmentDBLocation(commitment), HashBytes(parentHash)) >>

----------------------------------------------------------------------------
(* Specification SpecDecode: the records of one block, the last pivot and   *)
(* the uptime of the epochs, written by their writers or put as bytes that  *)
(* do not decode                                                            *)

\* the values the scalars are written with: 1..NumValues
NumValues == 2

Values == 1..NumValues

Epochs == 0..1

DecodeHeader == HeaderOf(1)

\* bytes that decode as no value
Undecodable == <<"undecodable", 0>>

\* the keys the decoding readers read
DecodeKeys ==
    {headerKey(DecodeHeader.Number, Hash(DecodeHeader)),
     blockBodyKey(DecodeHeader.Number, Hash(DecodeHeader)),
     headerTDKey(DecodeHeader.Number, Hash(DecodeHeader)),
     blockReceiptsKey(DecodeHeader.Number, Hash(DecodeHeader)),
     lastPivotKey} \cup {uptimeKey(epoch) : epoch \in Epochs}

\* a decoded value of the type the key holds, or nil: what the reader of the
\* key returns
ReadDecoded(key) ==
    LET hash == Hash(DecodeHeader)
        number == DecodeHeader.Number
    IN  CASE key = headerKey(number, hash)        -> ReadHeader(hash, number)
          [] key = blockBodyKey(number, hash)     -> ReadBody(hash, number)
          [] key = headerTDKey(number, hash)      -> ReadTd(hash, number)
          [] key = blockReceiptsKey(number, hash) -> ReadRawReceipts(hash, number)
          [] key = lastPivotKey                   -> ReadLastPivotNumber
          [] OTHER                                -> ReadAccumulatedEpochUptime(key.num)

\* WriteHeader, WriteBody, WriteTd, WriteReceipts of the block
CallWriteDecodeRecord ==
    /\ Callable
    /\ \E ops \in {WriteHeader(DecodeHeader),
                   WriteBody(Hash(DecodeHeader), DecodeHeader.Number, BodyOf(DecodeHeader)),
                   WriteTd(Hash(DecodeHeader), DecodeHeader.Number, TdOf(DecodeHeader)),
                   WriteReceipts(Hash(DecodeHeader), DecodeHeader.Number, ReceiptsOf(DecodeHeader))} :
          live' = Run(live, ops)
    /\ UNCHANGED <<ancient, mig, rd, wr, reported, call, bad>>

CallWriteLastPivotNumber ==
    /\ Callable
    /\ \E pivot \in Values : live' = Run(live, WriteLastPivotNumber(pivot))
    /\ UNCHANGED <<ancient, mig, rd, wr, reported, call, bad>>

CallWriteAccumulatedEpochUptime ==
    /\ Callable
    /\ \E epoch \in Epochs, uptime \in Values :
          live' = Run(live, WriteAccumulatedEpochUptime(epoch, uptime))
    /\ UNCHANGED <<ancient, mig, rd, wr, reported, call, bad>>

\* db.Put by another component, or a damaged value: bytes that do not decode
PutUndecodable ==
    /\ Callable
    /\ \E key \in DecodeKeys : live' = Apply(live, PutOp(key, Undecodable))
    /\ UNCHANGED <<ancient, mig, rd, wr, reported, call, bad>>

\* a read: the stores stay what they are, the call ends with a value or nil
CallReadDecoded ==
    /\ Callable
    /\ \E key \in DecodeKeys :
          call' = [op |-> "ReadDecoded", key |-> key, ret |-> ReadDecoded(key)]
    /\ UNCHANGED <<live, ancient, mig, rd, wr, reported, bad>>

NextDecode ==
    \/ CallWriteDecodeRecord
    \/ CallWriteLastPivotNumber
    \/ CallWriteAccumulatedEpochUptime
    \/ PutUndecodable
    \/ CallReadDecoded

SpecDecode == Init /\ [][NextDecode]_vars

\* the bytes under the key are bytes that do not decode
HoldsUndecodable(key) == Has(key) /\ Get(key)[1] = Undecodable[1]

\* C25: ReadHeader, ReadBody, ReadTd, ReadRawReceipts, ReadLastPivotNumber
\* and ReadAccumulatedEpochUptime return nil for a key whose bytes do not
\* decode, as they do for a key that is absent; what they return is nil or a
\* decoded value, never an error; a read changes neither store.
C25_DecodeFailure ==
    /\ [](\A key \in DecodeKeys :
            /\ (~Has(key) \/ HoldsUndecodable(key)) => ReadDecoded(key) = Nil
            /\ ReadDecoded(key) # Nil =>
                  Has(key) /\ ReadDecoded(key) = Some(DecodeBytes("", Get(key))))
    /\ [][call' # call => live' = live /\ ancient' = ancient]_vars

\* C25 witness: a read of a key returned nil while the key holds bytes that
\* do not decode, and another key holds a value that its reader returns.
C25_Witness ==
    /\ call.op = "ReadDecoded" /\ call.ret = Nil
    /\ HoldsUndecodable(call.key)
    /\ \E key \in DecodeKeys : ReadDecoded(key) # Nil

----------------------------------------------------------------------------
(* Specification SpecFatal: the writers and deleters store operation by     *)
(* store operation, on a live store that may reject a put or a delete       *)

\* the calls of one run
MaxCalls == 2

\* the process has ended
Terminated == call.op = "terminated"

\* logs the error of the store and goes on
LogCritGoesOn == "rejected"

\* log.Crit: logs the error of the store and ends the process
LogCrit == "terminated"

\* the store operations of the writers and deleters, called for one block
WriterCalls ==
    LET hd == DecodeHeader
        hash == Hash(DecodeHeader)
        number == DecodeHeader.Number
    IN  {WriteCanonicalHash(hash, number), DeleteCanonicalHash(number),
         WriteHeaderNumber(hash, number), DeleteHeaderNumber(hash),
         WriteHeader(hd), DeleteHeader(hash, number),
         WriteBody(hash, number, BodyOf(hd)), DeleteBody(hash, number),
         WriteTd(hash, number, TdOf(hd)), DeleteTd(hash, number),
         WriteReceipts(hash, number, ReceiptsOf(hd)), DeleteReceipts(hash, number),
         WriteBlock(BlockOf(hd)), DeleteBlock(hash, number),
         DeleteBlockWithoutNumber(hash, number),
         WriteHeadHeaderHash(hash), WriteHeadBlockHash(hash), WriteHeadFastBlockHash(hash),
         WriteLastPivotNumber(1), WriteFastTrieProgress(1), WriteTxIndexTail(1),
         WriteFastTxLookupLimit(1), WriteAccumulatedEpochUptime(0, 1),
         WriteRandomCommitmentCache(hash, hash), DeleteBadBlocks}
        \cup {WriteBadBlock(live, BlockOf(hd), sorted) :
                  sorted \in SortReverse(Appended(live, BlockOf(hd)))}

\* a writer or deleter is called
BeginWriter ==
    /\ Callable
    /\ ~Terminated
    /\ call.calls < MaxCalls
    /\ \E ops \in WriterCalls : ops # <<>> /\ wr' = ops
    /\ call' = [op |-> "running", calls |-> call.calls + 1]
    /\ UNCHANGED <<live, ancient, mig, rd, reported, bad>>

\* the store takes the next put or delete of the call
StoreAccept ==
    /\ ~Terminated
    /\ StoreStep

\* the store rejects the next put or delete of the call: the writer logs the
\* error with log.Crit
StoreReject ==
    /\ ~Terminated
    /\ wr # <<>>
    /\ call' = [call EXCEPT !.op = LogCrit]
    /\ wr' = IF LogCrit = "terminated" THEN wr ELSE Tail(wr)
    /\ UNCHANGED <<live, ancient, mig, rd, reported, bad>>

NextFatal ==
    \/ BeginWriter
    \/ StoreAccept
    \/ StoreReject

SpecFatal == Init /\ [][NextFatal]_vars

\* C26: in every writer and deleter, when the live store rejects a put or a
\* delete the process is terminated: the call has not returned and never
\* does, and no store operation runs afterwards.
C26_WriteFailureFatal ==
    /\ [](call.op \in {"rejected", "terminated"} => Terminated /\ wr # <<>>)
    /\ [][Terminated => live' = live /\ wr' = wr /\ Terminated']_vars

\* C26 witness: the second put of a call was rejected after the first was
\* taken: the process is terminated with the rejected put still to do.
C26_Witness ==
    /\ Terminated
    /\ wr = << PutOp(headerKey(DecodeHeader.Number, Hash(DecodeHeader)),
                     EncodeToBytes("Header", DecodeHeader)) >>
    /\ Has(headerNumberKey(Hash(DecodeHeader)))
    /\ ~Has(headerKey(DecodeHeader.Number, Hash(DecodeHeader)))

----------------------------------------------------------------------------
(* Specification SpecDelete: blocks imported into the live store and        *)
(* deleted from it, with and without their hash-to-number entry             *)

NextDelete ==
    \/ CallWriteBlock
    \/ CallWriteReceipts
    \/ CallWriteTd
    \/ CallDeleteBlock
    \/ CallDeleteBlockWithoutNumber

SpecDelete == Init /\ [][NextDelete]_vars

\* the live store holds the header, the body, the receipts or the total
\* difficulty of the block
HoldsRecord(hd) ==
    \/ Has(headerKey(hd.Number, Hash(hd)))
    \/ Has(blockBodyKey(hd.Number, Hash(hd)))
    \/ Has(blockReceiptsKey(hd.Number, Hash(hd)))
    \/ Has(headerTDKey(hd.Number, Hash(hd)))

\* C27: after DeleteBlock(hash, number) the live store holds no header, body,
\* receipts, total difficulty or hash-to-number entry of the block; after
\* DeleteBlockWithoutNumber(hash, number) it holds no header, body, receipts
\* or total difficulty of the block, and ReadHeaderNumber(hash) returns what
\* it returned before the call.
C27_DeleteBlock ==
    [][\A hd \in Headers :
          /\ Called(DeleteBlock(Hash(hd), hd.Number)) =>
                /\ ~HoldsRecord(hd)'
                /\ ~Has(headerNumberKey(Hash(hd)))'
                /\ ReadHeaderNumber(Hash(hd))' = Nil
          /\ Called(DeleteBlockWithoutNumber(Hash(hd), hd.Number)) =>
                /\ ~HoldsRecord(hd)'
                /\ ReadHeaderNumber(Hash(hd))' = ReadHeaderNumber(Hash(hd))]_vars

\* C27 witness: a block has its hash-to-number entry and none of its header,
\* body, receipts and total difficulty, while its sibling has no entry left.
C27_Witness ==
    \E hd, other \in Headers :
        /\ ~HoldsRecord(hd) /\ ReadHeaderNumber(Hash(hd)) = Some(hd.Number)
        /\ ~HoldsRecord(other) /\ ReadHeaderNumber(Hash(other)) = Nil
        /\ hd # other

----------------------------------------------------------------------------
(* Specification SpecHeads: the three head pointers *)

\* hashes the head pointers are written with, besides the zero hash
NumHeads == 3

HeadHashes == {ZeroHash} \cup {Hash(HeaderOf(i)) : i \in 1..NumHeads}

CallWriteHeadHeaderHash ==
    /\ Callable
    /\ \E hash \in HeadHashes : live' = Run(live, WriteHeadHeaderHash(hash))
    /\ UNCHANGED <<ancient, mig, rd, wr, reported, call, bad>>

CallWriteHeadBlockHash ==
    /\ Callable
    /\ \E hash \in HeadHashes : live' = Run(live, WriteHeadBlockHash(hash))
    /\ UNCHANGED <<ancient, mig, rd, wr, reported, call, bad>>

CallWriteHeadFastBlockHash ==
    /\ Callable
    /\ \E hash \in HeadHashes : live' = Run(live, WriteHeadFastBlockHash(hash))
    /\ UNCHANGED <<ancient, mig, rd, wr, reported, call, bad>>

NextHeads ==
    \/ CallWriteHeadHeaderHash
    \/ CallWriteHeadBlockHash
    \/ CallWriteHeadFastBlockHash

SpecHeads == Init /\ [][NextHeads]_vars

\* C28: a head pointer that was never written reads as the zero hash; after
\* WriteHeadHeaderHash, WriteHeadBlockHash or WriteHeadFastBlockHash the read
\* of that pointer returns the hash written, and the reads of the other two
\* pointers return what they returned before.
C28_HeadPointers ==
    /\ [](/\ ~Has(headHeaderKey) => ReadHeadHeaderHash = ZeroHash
          /\ ~Has(headBlockKey) => ReadHeadBlockHash = ZeroHash
          /\ ~Has(headFastBlockKey) => ReadHeadFastBlockHash = ZeroHash)
    /\ [][\A hash \in HeadHashes :
              /\ Called(WriteHeadHeaderHash(hash)) =>
                    /\ ReadHeadHeaderHash' = hash
                    /\ ReadHeadBlockHash' = ReadHeadBlockHash
                    /\ ReadHeadFastBlockHash' = ReadHeadFastBlockHash
              /\ Called(WriteHeadBlockHash(hash)) =>
                    /\ ReadHeadBlockHash' = hash
                    /\ ReadHeadHeaderHash' = ReadHeadHeaderHash
                    /\ ReadHeadFastBlockHash' = ReadHeadFastBlockHash
              /\ Called(WriteHeadFastBlockHash(hash)) =>
                    /\ ReadHeadFastBlockHash' = hash
                    /\ ReadHeadHeaderHash' = ReadHeadHeaderHash
                    /\ ReadHeadBlockHash' = ReadHeadBlockHash]_vars

\* C28 witness: the three head pointers hold three different hashes, none of
\* them the zero hash.
C28_Witness ==
    /\ ReadHeadHeaderHash # ZeroHash
    /\ ReadHeadBlockHash \notin {ZeroHash, ReadHeadHeaderHash}
    /\ ReadHeadFastBlockHash \notin {ZeroHash, ReadHeadHeaderHash, ReadHeadBlockHash}

----------------------------------------------------------------------------
(* Specification SpecScalars: the ancillary scalars *)

\* randomness commitments, as hashes
Commitments == {1, 2}

CallWriteFastTrieProgress ==
    /\ Callable
    /\ \E count \in 0..NumValues : live' = Run(live, WriteFastTrieProgress(count))
    /\ UNCHANGED <<ancient, mig, rd, wr, reported, call, bad>>

CallWriteTxIndexTail ==
    /\ Callable
    /\ \E number \in Values : live' = Run(live, WriteTxIndexTail(number))
    /\ UNCHANGED <<ancient, mig, rd, wr, reported, call, bad>>

CallWriteFastTxLookupLimit ==
    /\ Callable
    /\ \E number \in Values : live' = Run(live, WriteFastTxLookupLimit(number))
    /\ UNCHANGED <<ancient, mig, rd, wr, reported, call, bad>>

CallWriteRandomCommitmentCache ==
    /\ Callable
    /\ \E commitment \in Commitments, parentHash \in Values :
          live' = Run(live, WriteRandomCommitmentCache(commitment, parentHash))
    /\ UNCHANGED <<ancient, mig, rd, wr, reported, call, bad>>

NextScalars ==
    \/ CallWriteTxIndexTail
    \/ CallWriteFastTxLookupLimit
    \/ CallWriteLastPivotNumber
    \/ CallWriteFastTrieProgress
    \/ CallWriteAccumulatedEpochUptime
    \/ CallWriteRandomCommitmentCache

SpecScalars == Init /\ [][NextScalars]_vars

\* what every scalar reads as: the four single scalars, the uptime of every
\* epoch and the cache entry of every commitment
ScalarReads ==
    [tail    |-> ReadTxIndexTail,
     limit   |-> ReadFastTxLookupLimit,
     pivot   |-> ReadLastPivotNumber,
     trie    |-> ReadFastTrieProgress,
     uptime  |-> [epoch \in Epochs |-> ReadAccumulatedEpochUptime(epoch)],
     parents |-> [commitment \in Commitments |-> ReadRandomCommitmentCache(commitment)]]

\* C29: a scalar that was never written reads as absent: nil, 0 for the trie
\* progress, the zero hash for the commitment cache; after a write the read of
\* the same key returns the value written, and every other scalar, every
\* other epoch and every other commitment reads as before.
C29_Scalars ==
    /\ [](/\ ~Has(txIndexTailKey) => ReadTxIndexTail = Nil
          /\ ~Has(fastTxLookupLimitKey) => ReadFastTxLookupLimit = Nil
          /\ ~Has(lastPivotKey) => ReadLastPivotNumber = Nil
          /\ ~Has(fastTrieProgressKey) => ReadFastTrieProgress = 0
          /\ \A epoch \in Epochs :
                ~Has(uptimeKey(epoch)) => ReadAccumulatedEpochUptime(epoch) = Nil
          /\ \A commitment \in Commitments :
                ~Has(RandomnessCommitmentDBLocation(commitment)) =>
                    ReadRandomCommitmentCache(commitment) = ZeroHash)
    /\ [][/\ \A v \in Values :
                /\ Called(WriteTxIndexTail(v)) =>
                      ScalarReads' = [ScalarReads EXCEPT !.tail = Some(v)]
                /\ Called(WriteFastTxLookupLimit(v)) =>
                      ScalarReads' = [ScalarReads EXCEPT !.limit = Some(v)]
                /\ Called(WriteLastPivotNumber(v)) =>
                      ScalarReads' = [ScalarReads EXCEPT !.pivot = Some(v)]
                /\ \A epoch \in Epochs :
                      Called(WriteAccumulatedEpochUptime(epoch, v)) =>
                          ScalarReads' = [ScalarReads EXCEPT !.uptime[epoch] = Some(v)]
                /\ \A commitment \in Commitments :
                      Called(WriteRandomCommitmentCache(commitment, v)) =>
                          ScalarReads' = [ScalarReads EXCEPT !.parents[commitment] = v]
          /\ \A count \in 0..NumValues :
                Called(WriteFastTrieProgress(count)) =>
                    ScalarReads' = [ScalarReads EXCEPT !.trie = count]]_vars

\* C29 witness: every scalar was written, the two epochs with different
\* uptimes and the two commitments with different parent hashes, and the trie
\* progress with zero.
C29_Witness ==
    /\ ReadTxIndexTail # Nil /\ ReadFastTxLookupLimit # Nil /\ ReadLastPivotNumber # Nil
    /\ Has(fastTrieProgressKey) /\ ReadFastTrieProgress = 0
    /\ ReadAccumulatedEpochUptime(0) # Nil /\ ReadAccumulatedEpochUptime(1) # Nil
    /\ ReadAccumulatedEpochUptime(0) # ReadAccumulatedEpochUptime(1)
    /\ ReadRandomCommitmentCache(1) # ZeroHash /\ ReadRandomCommitmentCache(2) # ZeroHash
    /\ ReadRandomCommitmentCache(1) # ReadRandomCommitmentCache(2)

----------------------------------------------------------------------------
(* Specification SpecCodec: canonical hashes and headers written at        *)
(* numbers on both sides of a byte boundary; the key codec and the order   *)
(* of the range scans                                                      *)

\* numbers around the boundaries of the low three bytes of a number
CodecSamples == << 255, 256, 1, 65536, 65535, 257, 0, 65537 >>

\* how many of the samples are written to the store
NumCodec == 4

CodecNumbers == {CodecSamples[i] : i \in 1..Min(NumCodec, Len(CodecSamples))}

AllCodecNumbers == {CodecSamples[i] : i \in DOMAIN CodecSamples}

\* one header for each number
CodecHeader(number) == [Number |-> number, ParentHash |-> ZeroHash, Extra |-> 0]

CallWriteCodecCanonicalHash ==
    /\ Callable
    /\ \E number \in CodecNumbers :
          live' = Run(live, WriteCanonicalHash(Hash(CodecHeader(number)), number))
    /\ UNCHANGED <<ancient, mig, rd, wr, reported, call, bad>>

CallWriteCodecHeader ==
    /\ Callable
    /\ \E number \in CodecNumbers : live' = Run(live, WriteHeader(CodecHeader(number)))
    /\ UNCHANGED <<ancient, mig, rd, wr, reported, call, bad>>

NextCodec ==
    \/ CallWriteCodecCanonicalHash
    \/ CallWriteCodecHeader

SpecCodec == Init /\ [][NextCodec]_vars

\* the number-keyed keys of one number, by name, with the length of the
\* prefix before the number
NumberKeys(number) ==
    [headerKey        |-> [bytes |-> KeyBytes(headerKey(number, 1)), prefix |-> 1],
     headerTDKey      |-> [bytes |-> KeyBytes(headerTDKey(number, 1)), prefix |-> 1],
     headerHashKey    |-> [bytes |-> KeyBytes(headerHashKey(number)), prefix |-> 1],
     blockBodyKey     |-> [bytes |-> KeyBytes(blockBodyKey(number, 1)), prefix |-> 1],
     blockReceiptsKey |-> [bytes |-> KeyBytes(blockReceiptsKey(number, 1)), prefix |-> 1],
     uptimeKey        |-> [bytes |-> KeyBytes(uptimeKey(number)), prefix |-> Len(uptimePrefix)]]

\* whether the numbers of a list strictly ascend
Ascending(numbers) == \A i \in DOMAIN numbers : i > 1 => numbers[i - 1] < numbers[i]

\* whether the numbers of a list never descend
NonDescending(numbers) == \A i \in DOMAIN numbers : i > 1 => numbers[i - 1] <= numbers[i]

\* the keys of every kind and of any two numbers: the same prefix, the key of
\* the lower number less byte by byte, distinct keys for distinct numbers
NumberKeysOrdered ==
    \A m \in AllCodecNumbers, n \in AllCodecNumbers, name \in DOMAIN NumberKeys(0) :
        LET km == NumberKeys(m)[name]
            kn == NumberKeys(n)[name]
        IN  /\ SubSeq(km.bytes, 1, km.prefix) = SubSeq(kn.bytes, 1, kn.prefix)
            /\ m < n => BytesLess(km.bytes, kn.bytes)
            /\ m # n => km.bytes # kn.bytes

\* header keys of two numbers and of any two hashes: the lower number first
HeaderKeysOrdered ==
    \A m \in AllCodecNumbers, n \in AllCodecNumbers, g \in 1..3, h \in 1..3 :
        m < n => BytesLess(KeyBytes(headerKey(m, g)), KeyBytes(headerKey(n, h)))

\* the 8 bytes after the prefix are the number, big endian
NumberKeysBigEndian ==
    \A n \in AllCodecNumbers, name \in DOMAIN NumberKeys(0) :
        LET kn == NumberKeys(n)[name]
        IN  /\ Len(kn.bytes) >= kn.prefix + 8
            /\ Uint64(SubSeq(kn.bytes, kn.prefix + 1, kn.prefix + 8)) = n

\* C30: a number-keyed key is a fixed prefix followed by the 8 bytes of the
\* number, big endian: for two numbers m < n the key of m is less than the key
\* of n byte by byte (whatever the hashes after the number), distinct numbers
\* or epochs give distinct keys, and ReadAllCanonicalHashes and
\* ReadAllHashesInRange return every entry of their range in ascending order
\* of the number.
C30_KeyCodec ==
    /\ NumberKeysOrdered
    /\ HeaderKeysOrdered
    /\ NumberKeysBigEndian
    /\ \A from \in CodecNumbers \cup {0}, to \in CodecNumbers \cup {65537} :
          LET canonical == ReadAllCanonicalHashes(from, to, NumCodec + 1)
              hashes == IF from <= to THEN ReadAllHashesInRange(from, to) ELSE <<>>
          IN  /\ Ascending(canonical.numbers)
              /\ {canonical.numbers[i] : i \in DOMAIN canonical.numbers}
                     = {n \in CodecNumbers : from <= n /\ n < to /\ Has(headerHashKey(n))}
              /\ NonDescending([i \in DOMAIN hashes |-> hashes[i].Number])
              /\ {hashes[i].Number : i \in DOMAIN hashes}
                     = {n \in CodecNumbers :
                           from <= n /\ n <= to /\ Has(headerKey(n, Hash(CodecHeader(n))))}

\* C30 witness: canonical hashes and headers are stored at 255, 256 and
\* 65536, written in another order, and both scans return them in that order.
C30_Witness ==
    /\ ReadAllCanonicalHashes(0, 65537, 3).numbers = << 255, 256, 65536 >>
    /\ LET hashes == ReadAllHashesInRange(2, 65536)
       IN  [i \in DOMAIN hashes |-> hashes[i].Number] = << 255, 256, 65536 >>

----------------------------------------------------------------------------
(* Specification SpecBlock: WriteBlock and DeleteBlock one put or delete   *)
(* per step, next to a ReadBlock that reads the header in one step and the *)
(* body in a later one                                                     *)

\* a writer starts while a ReadBlock may be between its two reads
StartWriteBlock ==
    /\ wr = <<>>
    /\ \E hd \in Headers : wr' = WriteBlock(BlockOf(hd))
    /\ UNCHANGED <<live, ancient, mig, rd, reported, call, bad>>

StartDeleteBlock ==
    /\ wr = <<>>
    /\ \E hd \in Headers : wr' = DeleteBlock(Hash(hd), hd.Number)
    /\ UNCHANGED <<live, ancient, mig, rd, reported, call, bad>>

\* ReadBlock is called
ReadBlockStart ==
    /\ rd.pc = "idle"
    /\ \E hd \in Headers :
          rd' = [Idle EXCEPT !.op = "ReadBlock", !.hash = Hash(hd), !.num = hd.Number,
                             !.pc = "header"]
    /\ UNCHANGED <<live, ancient, mig, wr, reported, call, bad>>

\* header := ReadHeader(db, hash, number); if header == nil { return nil }
ReadBlockHeader ==
    /\ rd.op = "ReadBlock" /\ rd.pc = "header"
    /\ LET header == ReadHeader(rd.hash, rd.num)
       IN  rd' = IF header = Nil
                 THEN [rd EXCEPT !.pc = "done", !.ret = Nil]
                 ELSE [rd EXCEPT !.pc = "body", !.data = header]
    /\ UNCHANGED <<live, ancient, mig, wr, reported, call, bad>>

\* body := ReadBody(db, hash, number); if body == nil { return nil }; the
\* block of the header and the body
ReadBlockBody ==
    /\ rd.op = "ReadBlock" /\ rd.pc = "body"
    /\ LET body == ReadBody(rd.hash, rd.num)
       IN  rd' = IF body = Nil
                 THEN [rd EXCEPT !.pc = "done", !.ret = Nil]
                 ELSE [rd EXCEPT !.pc = "done",
                                 !.ret = Some(WithBody(rd.data[1], body[1].Transactions,
                                                       body[1].Randomness,
                                                       body[1].EpochSnarkData))]
    /\ UNCHANGED <<live, ancient, mig, wr, reported, call, bad>>

\* ReadBlock returns
ReadBlockReturn ==
    /\ rd.op = "ReadBlock" /\ rd.pc = "done"
    /\ rd' = Idle
    /\ UNCHANGED <<live, ancient, mig, wr, reported, call, bad>>

NextBlock ==
    \/ StartWriteBlock
    \/ StartDeleteBlock
    \/ StoreStep
    \/ ReadBlockStart
    \/ ReadBlockHeader
    \/ ReadBlockBody
    \/ ReadBlockReturn

SpecBlock == Init /\ [][NextBlock]_vars

\* the block WriteBlock stores for a header, as ReadBlock assembles it
CompleteBlock(hd) ==
    WithBody(hd, BodyOf(hd).Transactions, BodyOf(hd).Randomness, BodyOf(hd).EpochSnarkData)

\* C31: at every point of a run of WriteBlock and DeleteBlock calls, between
\* the puts and deletes of one call too, a header in the live store has its
\* body in the live store; a ReadBlock whose two reads fall anywhere between
\* those puts and deletes returns nil or the complete block.
C31_HeaderImpliesBody ==
    /\ \A hd \in Headers :
          Has(headerKey(hd.Number, Hash(hd))) => Has(blockBodyKey(hd.Number, Hash(hd)))
    /\ rd.op = "ReadBlock" /\ rd.pc = "done" =>
          \E hd \in Headers :
              /\ Hash(hd) = rd.hash
              /\ rd.ret \in {Nil, Some(CompleteBlock(hd))}

\* C31 witness: a WriteBlock has stored the body and not yet the header, and
\* a ReadBlock of that block made in between has returned nil.
C31_Witness ==
    \E hd \in Headers :
        /\ wr # <<>>
        /\ Has(blockBodyKey(hd.Number, Hash(hd)))
        /\ ~Has(headerKey(hd.Number, Hash(hd)))
        /\ ~Has(headerNumberKey(Hash(hd)))
        /\ rd.op = "ReadBlock" /\ rd.pc = "done" /\ rd.hash = Hash(hd) /\ rd.ret = Nil

----------------------------------------------------------------------------
(* Has* against Read*RLP *)

\* C32: in every state reached by whole calls of the writers and by the
\* migrator, for every hash and number, HasHeader is true exactly when
\* ReadHeaderRLP returns bytes, HasBody exactly when ReadBodyRLP does, and
\* HasReceipts exactly when ReadReceiptsRLP does.
C32_HasReadAgreement ==
    \A hd \in Headers, number \in BlockNumbers :
        /\ HasHeader(Hash(hd), number) <=> Len(ReadHeaderRLP(Hash(hd), number)) > 0
        /\ HasBody(Hash(hd), number) <=> Len(ReadBodyRLP(Hash(hd), number)) > 0
        /\ HasReceipts(Hash(hd), number) <=> Len(ReadReceiptsRLP(Hash(hd), number)) > 0

----------------------------------------------------------------------------
(* Specification SpecFinal: blocks written and frozen by the migrator,     *)
(* canonical hashes written and deleted in the live store before and after *)

NextFinal ==
    \/ CallWriteBlock
    \/ CallWriteReceipts
    \/ CallWriteTd
    \/ CallWriteCanonicalHash
    \/ CallDeleteCanonicalHash
    \/ MigFreeze
    \/ MigDelete

SpecFinal == Init /\ [][NextFinal]_vars

\* C35: once the ancient hash table holds an entry for a number,
\* ReadCanonicalHash(number) returns that entry after every later step,
\* WriteCanonicalHash and DeleteCanonicalHash for that number included.
C35_CanonicalFinal ==
    [][\A number \in BlockNumbers :
          number < Frozen => ReadCanonicalHash(number)' = AncientHash(number)]_vars

\* C35 witness: number 0 is frozen under one hash and the live store holds
\* another canonical hash for it, written after the block was frozen.
C35_Witness ==
    /\ Frozen > 0
    /\ mig.pc = "idle"
    /\ Has(headerHashKey(0))
    /\ BytesToHash(Get(headerHashKey(0))) # AncientHash(0)
    /\ ReadCanonicalHash(0) = AncientHash(0)

----------------------------------------------------------------------------
(* Specification SpecRecord: WriteBadBlock called with blocks of distinct  *)
(* numbers and with two blocks of the lowest number, the blocks of number  *)
(* 2 and above in ascending order; the call and the list it found are kept *)
(* as history                                                              *)

\* one block for each of the numbers 0 .. NumBadBlocks-1, and a second block
\* of number 0
RecordHeaders == RetainHeaders \cup {HeaderOf(2)}

\* the caller reports a block of number 2 or above once the blocks of the
\* numbers from 2 up to its own are in the list
InReportOrder(hd) ==
    \A other \in RecordHeaders :
        (2 <= other.Number /\ other.Number < hd.Number) =>
            \E i \in DOMAIN badBlocksIn(live) : badBlocksIn(live)[i].Header = other

CallRecordBadBlock ==
    /\ Callable
    /\ \E hd \in RecordHeaders :
          /\ InReportOrder(hd)
          /\ \E sorted \in SortReverse(Appended(live, BlockOf(hd))) :
                live' = Run(live, WriteBadBlock(live, BlockOf(hd), sorted))
          /\ call' = [op |-> "WriteBadBlock", header |-> hd, before |-> badBlocksIn(live)]
    /\ UNCHANGED <<ancient, mig, rd, wr, reported, bad>>

NextRecord == CallRecordBadBlock

SpecRecord == Init /\ [][NextRecord]_vars

\* the entry WriteBadBlock stores for a header
BadBlockEntry(hd) == [Header |-> hd, Body |-> BodyOf(hd)]

\* the block is read back by its hash and is in the list of all bad blocks
ReadBack(hd) ==
    /\ ReadBadBlock(Hash(hd)) = Some(BadBlockEntry(hd))
    /\ \E i \in DOMAIN ReadAllBadBlocks : ReadAllBadBlocks[i] = BadBlockEntry(hd)

\* the block is not in the stored list
NotStored(hd) ==
    /\ ReadBadBlock(Hash(hd)) = Nil
    /\ \A i \in DOMAIN ReadAllBadBlocks : ReadAllBadBlocks[i] # BadBlockEntry(hd)

\* C33 as stated: immediately after WriteBadBlock(b) returns, ReadBadBlock of
\* the hash of b returns b and ReadAllBadBlocks contains b, whatever the list
\* held before, a list of 10 entries of higher numbers included.
C33_ReadBack ==
    call.op = "WriteBadBlock" => ReadBack(call.header)

\* C33 amended: immediately after WriteBadBlock(b) returns, b is read back by
\* ReadBadBlock and is in ReadAllBadBlocks when the list before the call held
\* b, or fewer than 10 entries, or an entry of a lower number than b; when it
\* held 10 entries, b not among them, all of numbers higher than the number of
\* b, the call leaves the list as it was and b is not stored; when it held 10
\* entries, none lower than b and one of the number of b, b is read back or
\* not stored, and the list still has 10 entries.
C33_ReadBackAmended ==
    call.op = "WriteBadBlock" =>
        LET b == call.header
            before == call.before
            held == \E i \in DOMAIN before : before[i].Header = b
            lower == \E i \in DOMAIN before : before[i].Header.Number < b.Number
            higher == \A i \in DOMAIN before : before[i].Header.Number > b.Number
        IN  /\ (held \/ Len(before) < badBlockToKeep \/ lower) => ReadBack(b)
            /\ (Len(before) = badBlockToKeep /\ higher) =>
                  NotStored(b) /\ badBlocksIn(live) = before
            /\ (ReadBack(b) \/ NotStored(b))
            /\ Len(before) = badBlockToKeep => Len(badBlocksIn(live)) = badBlockToKeep

\* C33 witness: WriteBadBlock of the block of number 0 has returned on a list
\* of 10 blocks of higher numbers, and the block is not in the stored list.
C33_Witness ==
    /\ call.op = "WriteBadBlock"
    /\ call.header.Number = 0
    /\ Len(call.before) = badBlockToKeep
    /\ \A i \in DOMAIN call.before : call.before[i].Header.Number > 0
    /\ NotStored(call.header)

----------------------------------------------------------------------------
(* Specification SpecConcurrent: a list written by earlier calls, then two *)
(* callers of WriteBadBlock with distinct blocks, each call one db.Get and *)
(* one db.Put, the four store operations in any order                      *)

\* the blocks of the concurrent runs: block i has number (i-1) \div 2
NumConcurrent == 4

ConcurrentHeaders == {HeaderOf(i) : i \in 1..NumConcurrent}

\* no caller has started
NoneStarted == \A c \in Callers : bad[c].pc = "idle"

\* every caller has returned
AllReturned == \A c \in Callers : bad[c].pc = "done"

\* a call made, start to end, before the two callers start
CallEarlierBadBlock ==
    /\ Callable
    /\ NoneStarted
    /\ \E hd \in ConcurrentHeaders :
          \E sorted \in SortReverse(Appended(live, BlockOf(hd))) :
              live' = Run(live, WriteBadBlock(live, BlockOf(hd), sorted))
    /\ UNCHANGED <<ancient, mig, rd, wr, reported, call, bad>>

\* caller c calls WriteBadBlock, with a block no other caller passes
BadBlockStart(c) ==
    /\ bad[c].pc = "idle"
    /\ \E hd \in ConcurrentHeaders :
          /\ \A d \in Callers \ {c} : bad[d].pc = "idle" \/ bad[d].header # hd
          /\ bad' = [bad EXCEPT ![c] = [pc |-> "get", header |-> hd, blob |-> <<>>]]
    /\ UNCHANGED <<live, ancient, mig, rd, wr, reported, call>>

\* blob, err := db.Get(badBlockKey)
BadBlockGet(c) ==
    /\ bad[c].pc = "get"
    /\ bad' = [bad EXCEPT ![c].pc = "put", ![c].blob = Get(badBlockKey)]
    /\ UNCHANGED <<live, ancient, mig, rd, wr, reported, call>>

\* the store as caller c read it
SeenBy(c) ==
    IF Len(bad[c].blob) > 0 THEN [k \in {badBlockKey} |-> bad[c].blob] ELSE <<>>

\* the rest of the call, on the list read: the duplicate scan, and the
\* append, sort, truncation and db.Put
BadBlockPut(c) ==
    /\ bad[c].pc = "put"
    /\ \E sorted \in SortReverse(Appended(SeenBy(c), BlockOf(bad[c].header))) :
          live' = Run(live, WriteBadBlock(SeenBy(c), BlockOf(bad[c].header), sorted))
    /\ bad' = [bad EXCEPT ![c].pc = "done"]
    /\ UNCHANGED <<ancient, mig, rd, wr, reported, call>>

NextConcurrent ==
    \/ CallEarlierBadBlock
    \/ \E c \in Callers : BadBlockStart(c)
    \/ \E c \in Callers : BadBlockGet(c)
    \/ \E c \in Callers : BadBlockPut(c)

SpecConcurrent == Init /\ [][NextConcurrent]_vars

\* the stored list holds the block of the header
Recorded(hd) == \E i \in DOMAIN badBlocksIn(live) : badBlocksIn(live)[i].Header = hd

\* the list caller c read held the block of the header
SawBlock(c, hd) ==
    \E i \in DOMAIN badBlocksIn(SeenBy(c)) : badBlocksIn(SeenBy(c))[i].Header = hd

\* the bound, no-duplicate and descending-order invariant of the stored list
BadBlockListOk ==
    LET list == badBlocksIn(live)
    IN  /\ Len(list) <= badBlockToKeep
        /\ \A i, j \in DOMAIN list : list[i].Header = list[j].Header => i = j
        /\ \A i, j \in DOMAIN list :
              i < j => list[i].Header.Number >= list[j].Header.Number

\* C34 as stated: when two WriteBadBlock calls for two distinct blocks run
\* concurrently on a list of fewer than 9 entries, their gets and puts in any
\* order, both blocks are in the stored list after both calls return, and the
\* list satisfies the bound, no-duplicate and descending-order invariant.
C34_NoLostBadBlock ==
    AllReturned => BadBlockListOk /\ \A c \in Callers : Recorded(bad[c].header)

\* C34 amended: after both calls return the list satisfies the bound,
\* no-duplicate and descending-order invariant and holds the block of at least
\* one of the calls; it holds both blocks whenever one call read a list that
\* held the block of the other (the calls ran one after the other, or the
\* block was in the list before).
C34_NoLostBadBlockAmended ==
    AllReturned =>
        /\ BadBlockListOk
        /\ \E c \in Callers : Recorded(bad[c].header)
        /\ \A c \in Callers, d \in Callers :
              (c # d /\ SawBlock(c, bad[d].header)) =>
                  Recorded(bad[c].header) /\ Recorded(bad[d].header)

\* C34 witness: both calls have returned, neither read the block of the other,
\* and the stored list, of fewer than 9 entries, lacks the block of one call.
C34_Witness ==
    /\ AllReturned
    /\ \A c \in Callers, d \in Callers : c # d => ~SawBlock(c, bad[d].header)
    /\ \E c \in Callers : ~Recorded(bad[c].header)
    /\ \E c \in Callers : Len(badBlocksIn(SeenBy(c))) > 0
    /\ Len(badBlocksIn(live)) < 9

----------------------------------------------------------------------------
(* The canonical body read against the hash-qualified read *)

\* C36: in every state reached by whole calls of the writers and by the
\* migrator, the ancient tables holding the same numbers, and for every
\* number, ReadCanonicalBodyRLP(number) returns the bytes (or the absence)
\* that ReadBodyRLP(ReadCanonicalHash(number), number) returns.
C36_CanonicalBody ==
    \A number \in BlockNumbers :
        ReadCanonicalBodyRLP(number) = ReadBodyRLP(ReadCanonicalHash(number), number)

\* C36 witness: number 0 is frozen under one hash, the live store holds the
\* canonical hash and the body of the other block of number 0, and the
\* canonical body read returns the frozen body.
C36_Witness ==
    /\ Frozen > 0 /\ mig.pc = "idle"
    /\ \A t \in DOMAIN ancient : Len(ancient[t]) = Frozen
    /\ BytesToHash(Get(headerHashKey(0))) \notin {ZeroHash, AncientHash(0)}
    /\ Has(blockBodyKey(0, BytesToHash(Get(headerHashKey(0)))))
    /\ ReadCanonicalBodyRLP(0) = Ancient(freezerBodiesTable, 0)
    /\ ReadCanonicalBodyRLP(0) # Get(blockBodyKey(0, BytesToHash(Get(headerHashKey(0)))))

----------------------------------------------------------------------------
(* Termination and symmetry of FindCommonAncestor, of calls on the states  *)
(* of Spec and of SpecFinal                                                *)

\* the parent chain of the header goes down to a header of number 0
ReachesZero(header) == \E h \in AncestorsOf(header) : h.Number = 0

\* the parent lookups of a call are at most a.number + b.number + 2
LookupsBounded ==
    \A a, b \in ArgHeaders :
        Len(FindCommonAncestor(a, b).lookups) <= a.Number + b.Number + 2

\* C37: FindCommonAncestor(a, b) returns after at most a.number + b.number + 2
\* parent lookups; for two headers whose stored parent chains go down to
\* number 0 and share no header, the call returns nil, its last lookup being
\* the one at the number 0 - 1 wraps to, which misses.
C37_AncestorTerminates ==
    /\ LookupsBounded
    /\ \A a, b \in ArgHeaders :
          (/\ ChainStored(a) /\ ChainStored(b)
           /\ ReachesZero(a) /\ ReachesZero(b)
           /\ CommonAncestors(a, b) = {}) =>
              LET r == FindCommonAncestor(a, b)
              IN  /\ r.ret = Nil
                  /\ Len(r.lookups) >= 1
                  /\ r.lookups[Len(r.lookups)].number = MaxUint64

\* the hash of the header a call returned, the zero hash for nil
ReturnedHash(r) == IF r.ret = Nil THEN ZeroHash ELSE Hash(r.ret[1])

\* C38: for every pair of headers a, b and every state of the stores,
\* FindCommonAncestor(a, b) and FindCommonAncestor(b, a) both return nil or
\* both return a header of the same hash.
C38_AncestorSymmetric ==
    \A a, b \in ArgHeaders :
        /\ FindCommonAncestor(a, b).ret = Nil <=> FindCommonAncestor(b, a).ret = Nil
        /\ ReturnedHash(FindCommonAncestor(a, b)) = ReturnedHash(FindCommonAncestor(b, a))

\* C38 witness: a block is frozen; for two headers of different numbers the
\* call returns a header, for two others it returns nil, in both orders of
\* the arguments.
C38_Witness ==
    /\ Frozen > 0
    /\ \E a, b \in ArgHeaders :
          /\ a.Number > b.Number
          /\ FindCommonAncestor(a, b).ret # Nil
          /\ FindCommonAncestor(b, a).ret # Nil
          /\ Len(FindCommonAncestor(a, b).lookups) >= 1
    /\ \E a, b \in ArgHeaders :
          /\ a.Number > b.Number
          /\ FindCommonAncestor(a, b).ret = Nil
          /\ FindCommonAncestor(b, a).ret = Nil

-----------------------------------------------------------------------------
(* ReadAllHashesInRange on an inverted range, on the states of SpecRange *)

\* the numbers of the inverted calls: the lowest ones and the highest ones
InvertedNumbers == RangeNumbers \cup {MaxUint64 - 1, MaxUint64}

\* C39: for every first > last, with first > last + 1 where the capacity
\* 1 + last - first wraps included, ReadAllHashesInRange completes and
\* returns the empty list
C39_InvertedRange ==
    \A first \in InvertedNumbers, last \in InvertedNumbers :
        first > last => ReadAllHashesInRange(first, last) = <<>>

\* the inverted calls make gives a slice to return the empty list: first =
\* last + 1, and the pairs whose wrapped capacity is a small one
C39_InvertedRangeAllocated ==
    \A first \in InvertedNumbers, last \in InvertedNumbers :
        (first > last /\ ~makeslicePanics(hashesCapacity(first, last)))
            => ReadAllHashesInRange(first, last) = <<>>

\* headers are stored, first = last + 1 returns empty, and first = last + 2
\* asks for the capacity 2^64 - 1
C39_Witness ==
    /\ \E key \in DOMAIN live : key.kind = "h" /\ key.num = 1 /\ key.suffix = ""
    /\ ReadAllHashesInRange(1, 0) = <<>>
    /\ hashesCapacity(2, 0) = MaxUint64
    /\ hashesCapacity(MaxUint64, 0) = 2
    /\ ReadAllHashesInRange(2, 0) = Panicked

-----------------------------------------------------------------------------
(* The bounds of ReadAllCanonicalHashes, on the states of SpecRange *)

\* a limit above the count of the canonical entries of every range
AboveCount == NumRange + 1

\* the numbers a call returned, as a set
Returned(r) == {r.numbers[i] : i \in DOMAIN r.numbers}

\* C40: every number ReadAllCanonicalHashes(from, to, limit) returns satisfies
\* from <= number < to, so the canonical entry at height `to` is never
\* returned; with a limit above the count of the canonical entries of the
\* range it returns all of them; and with from >= to it returns nothing.
C40_CanonicalBounds ==
    \A from \in RangeNumbers, to \in RangeNumbers, limit \in 1..AboveCount :
        LET r == ReadAllCanonicalHashes(from, to, limit)
        IN  /\ \A i \in DOMAIN r.numbers : from <= r.numbers[i] /\ r.numbers[i] < to
            /\ to \notin Returned(r)
            /\ limit > Cardinality(CanonicalIn(from, to)) =>
                  /\ Returned(r) = CanonicalIn(from, to)
                  /\ Len(r.numbers) = Cardinality(CanonicalIn(from, to))
            /\ from >= to => r.numbers = <<>> /\ r.hashes = <<>>

\* C40 witness: heights 0 and 1 have a canonical entry; the call with to = 1
\* returns height 0 and not height 1, and the calls with from = to = 1 and
\* with from above to return nothing
C40_Witness ==
    /\ Has(headerHashKey(0)) /\ Has(headerHashKey(1))
    /\ ReadAllCanonicalHashes(0, 1, AboveCount).numbers = << 0 >>
    /\ ReadAllCanonicalHashes(0, 2, AboveCount).numbers = << 0, 1 >>
    /\ ReadAllCanonicalHashes(1, 1, AboveCount).numbers = <<>>
    /\ ReadAllCanonicalHashes(2, 1, AboveCount).numbers = <<>>

====
